---- MODULE Spec2Model ----
(***************************************************************************)
(* Model of the to-do service: the Todo document (models/todo.model), its  *)
(* save hooks, and the handlers of controllers/todo.controller behind the  *)
(* routes of routes/todo.route.js.  One action is one HTTP request handled *)
(* from validation to response; `last` records the request and its status  *)
(* code.  The specifications of concurrent requests split a handler at its *)
(* awaits: `requests` holds the handlers that are between two awaits.  The *)
(* authentication side (controllers/user.controller, the rate limiter of   *)
(* middlewares/auth.middleware) has its own state.                         *)
(***************************************************************************)
EXTENDS Integers, Sequences, FiniteSets, TLC

VARIABLES
    todos,      \* the Todo collection: todos[i] is the document with _id i
    nextSubId,  \* next generated subdocument _id (ObjectIds are never reused)
    last,       \* the request handled last and the status code it returned
    requests,   \* the handlers suspended at an await, with their documents
    refreshTokens, \* the User collection: refreshTokens[u] of user u
    loginAttempts, \* the rate limiter's Map: identifier -> {count, resetTime}
    limiter,    \* the parameters rateLimitAuth was called with
    now,        \* Date.now(), in the unit of windowMs
    history     \* what the authentication side let through, oldest first

vars == <<todos, nextSubId, last, requests, refreshTokens, loginAttempts,
          limiter, now, history>>

(***************************************************************************)
(* Bounds                                                                  *)
(***************************************************************************)
MaxTodos == 2
MaxLog == 5
MaxSubtasks == 1
\* the clock stops here, and `history` holds at most this many entries
MaxNow == 2
MaxHistory == 3

(***************************************************************************)
(* Values                                                                  *)
(***************************************************************************)
Users == {"u1", "u2"}

\* null for string-valued paths (label) and for Date paths
Null == "null"
NullDate == 0
\* the value `new Date()` stores in completedAt
Now == 1

NoChanges == [k \in {} |-> Null]
NoBody == [k \in {} |-> Null]

Has(body, k) == k \in DOMAIN body

\* String.prototype.length for the strings requests carry
StrLen(s) ==
    CASE s = "" -> 0
      [] s = "ab" -> 2
      [] OTHER -> 3

validStatuses == {"todo", "in-progress", "completed", "blocked", "on-hold"}
validPriorities == {"low", "medium", "high", "urgent"}
validPermissions == {"view", "edit", "admin"}

(***************************************************************************)
(* The subtask tree                                                        *)
(***************************************************************************)
\* a subdocument of subTodoSchema
SubTodo(id, title, description, priority, dueDate, kids) ==
    [_id |-> id, title |-> title, description |-> description,
     status |-> "todo", priority |-> priority, completed |-> FALSE,
     completedAt |-> NullDate, dueDate |-> dueDate, subtasks |-> kids]

RECURSIVE calculateProgressFrom(_, _)
calculateProgressFrom(tasks, i) ==
    IF i > Len(tasks) THEN [total |-> 0, completed |-> 0]
    ELSE LET task == tasks[i]
             own == [total |-> 1,
                     completed |-> IF task.completed THEN 1 ELSE 0]
             sub == IF Len(task.subtasks) > 0
                    THEN calculateProgressFrom(task.subtasks, 1)
                    ELSE [total |-> 0, completed |-> 0]
             rest == calculateProgressFrom(tasks, i + 1)
         IN [total |-> own.total + sub.total + rest.total,
             completed |-> own.completed + sub.completed + rest.completed]

\* a calculateProgress that does not descend into task.subtasks
calculateProgressFlat(tasks) ==
    [total |-> Len(tasks),
     completed |-> Cardinality({i \in 1..Len(tasks) : tasks[i].completed})]

calculateProgress(tasks) == calculateProgressFrom(tasks, 1)

\* an update that also moves the node's status along with its completed flag
ApplySubtaskBodySynced(node, body) ==
    LET n == IF Has(body, "title") /\ body.title # ""
             THEN [node EXCEPT !.title = body.title] ELSE node
    IN IF Has(body, "completed")
       THEN [n EXCEPT !.completed = body.completed,
                      !.status = IF body.completed THEN "completed" ELSE "todo",
                      !.completedAt = IF body.completed THEN Now ELSE @]
       ELSE n

\* what updateSubtask's closure assigns to the matched node
ApplySubtaskBody(node, body) ==
    LET n1 == IF Has(body, "title") /\ body.title # ""
              THEN [node EXCEPT !.title = body.title] ELSE node
        n2 == IF Has(body, "description")
              THEN [n1 EXCEPT !.description = body.description] ELSE n1
        n3 == IF Has(body, "status") /\ body.status # ""
              THEN [n2 EXCEPT !.status = body.status] ELSE n2
        n4 == IF Has(body, "priority") /\ body.priority # ""
              THEN [n3 EXCEPT !.priority = body.priority] ELSE n3
        n5 == IF Has(body, "dueDate") /\ body.dueDate # NullDate
              THEN [n4 EXCEPT !.dueDate = body.dueDate] ELSE n4
        n6 == IF Has(body, "completed")
              THEN [n5 EXCEPT !.completed = body.completed,
                              !.completedAt = IF body.completed THEN Now
                                              ELSE n5.completedAt]
              ELSE n5
    IN n6

\* findAndUpdateSubtask(subtasks, id), scanning from index i: the loop
\* returns at the first match in depth-first order
RECURSIVE findAndUpdateSubtaskFrom(_, _, _, _)
findAndUpdateSubtaskFrom(subtasks, i, id, body) ==
    IF i > Len(subtasks) THEN [found |-> FALSE, subtasks |-> subtasks]
    ELSE IF subtasks[i]._id = id
    THEN [found |-> TRUE,
          subtasks |-> [subtasks EXCEPT ![i] = ApplySubtaskBody(@, body)]]
    ELSE LET inner == IF Len(subtasks[i].subtasks) > 0
                      THEN findAndUpdateSubtaskFrom(subtasks[i].subtasks, 1, id, body)
                      ELSE [found |-> FALSE, subtasks |-> subtasks[i].subtasks]
         IN IF inner.found
            THEN [found |-> TRUE,
                  subtasks |-> [subtasks EXCEPT ![i].subtasks = inner.subtasks]]
            ELSE findAndUpdateSubtaskFrom(subtasks, i + 1, id, body)

\* a findAndUpdateSubtask whose final `return false` reads `return true`
findAndUpdateSubtaskTrue(subtasks, id, body) ==
    [found |-> TRUE,
     subtasks |-> findAndUpdateSubtaskFrom(subtasks, 1, id, body).subtasks]

findAndUpdateSubtask(subtasks, id, body) ==
    findAndUpdateSubtaskFrom(subtasks, 1, id, body)

\* Array.prototype.splice(i, 1)
Splice(s, i) == SubSeq(s, 1, i - 1) \o SubSeq(s, i + 1, Len(s))

RECURSIVE deleteSubtaskHelperFrom(_, _, _)
deleteSubtaskHelperFrom(subtasks, i, id) ==
    IF i > Len(subtasks) THEN [deleted |-> FALSE, subtasks |-> subtasks]
    ELSE IF subtasks[i]._id = id
    THEN [deleted |-> TRUE, subtasks |-> Splice(subtasks, i)]
    ELSE LET inner == IF Len(subtasks[i].subtasks) > 0
                      THEN deleteSubtaskHelperFrom(subtasks[i].subtasks, 1, id)
                      ELSE [deleted |-> FALSE, subtasks |-> subtasks[i].subtasks]
         IN IF inner.deleted
            THEN [deleted |-> TRUE,
                  subtasks |-> [subtasks EXCEPT ![i].subtasks = inner.subtasks]]
            ELSE deleteSubtaskHelperFrom(subtasks, i + 1, id)

\* a deleteSubtaskHelper that keeps the children of the removed node
RECURSIVE deleteSubtaskHoistFrom(_, _, _)
deleteSubtaskHoistFrom(subtasks, i, id) ==
    IF i > Len(subtasks) THEN [deleted |-> FALSE, subtasks |-> subtasks]
    ELSE IF subtasks[i]._id = id
    THEN [deleted |-> TRUE,
          subtasks |-> SubSeq(subtasks, 1, i - 1) \o subtasks[i].subtasks
                       \o SubSeq(subtasks, i + 1, Len(subtasks))]
    ELSE LET inner == IF Len(subtasks[i].subtasks) > 0
                      THEN deleteSubtaskHoistFrom(subtasks[i].subtasks, 1, id)
                      ELSE [deleted |-> FALSE, subtasks |-> subtasks[i].subtasks]
         IN IF inner.deleted
            THEN [deleted |-> TRUE,
                  subtasks |-> [subtasks EXCEPT ![i].subtasks = inner.subtasks]]
            ELSE deleteSubtaskHoistFrom(subtasks, i + 1, id)

deleteSubtaskHelperHoist(subtasks, id) == deleteSubtaskHoistFrom(subtasks, 1, id)

deleteSubtaskHelper(subtasks, id) == deleteSubtaskHelperFrom(subtasks, 1, id)

(***************************************************************************)
(* The Todo document and its save hooks                                    *)
(***************************************************************************)
Entry(action, userId, changes) ==
    [action |-> action, userId |-> userId, changes |-> changes]

\* a Todo built from the paths a handler passes to Todo.create, the other
\* paths at their schema defaults
NewTodo(userId, title, description, priority, dueDate, category, tags, estimatedTime, subtasks) ==
    [userId |-> userId, title |-> title, description |-> description,
     status |-> "todo", priority |-> priority, completed |-> FALSE,
     completedAt |-> NullDate, dueDate |-> dueDate,
     estimatedTime |-> estimatedTime, actualTime |-> 0,
     category |-> category, tags |-> tags, label |-> Null,
     activityLog |-> <<Entry("created", userId, NoChanges)>>,
     subtasks |-> subtasks,
     checklistProgress |-> [total |-> 0, completed |-> 0],
     sharedWith |-> <<>>, isArchived |-> FALSE, isDeleted |-> FALSE,
     deletedAt |-> NullDate,
     assignee |-> Null, watchers |-> <<>>, comments |-> <<>>]

\* first pre('save') hook
progressHook(doc) ==
    [doc EXCEPT !.checklistProgress = calculateProgress(doc.subtasks)]

\* an activity hook that rewrites the log instead of pushing to it
activityHookReset(doc, modified, isNew) ==
    IF modified /\ ~isNew
    THEN [doc EXCEPT !.activityLog = <<Entry("updated", doc.userId, NoChanges)>>]
    ELSE doc

\* second pre('save') hook
activityHook(doc, modified, isNew) ==
    IF modified /\ ~isNew
    THEN [doc EXCEPT !.activityLog =
              Append(@, Entry("updated", doc.userId, NoChanges))]
    ELSE doc

\* doc.save() of a loaded document: `stored` is the document as loaded,
\* `touched` says that a path was assigned a value that never equals the
\* stored one (a fresh Date); isModified() is true when a path differs
save(stored, doc, touched) ==
    LET d1 == progressHook(doc)
    IN activityHook(d1, touched \/ d1 # stored, FALSE)

\* Todo.create(data): the hooks run with isNew
create(doc) == activityHook(progressHook(doc), TRUE, TRUE)

Exists(todoId) == todoId \in 1..Len(todos)

\* an ownership test that lets an admin share through
IsOwnerOrAdmin(todo, userId) ==
    \/ todo.userId = userId
    \/ \E i \in 1..Len(todo.sharedWith) :
           /\ todo.sharedWith[i].userId = userId
           /\ todo.sharedWith[i].permissions = "admin"

\* todo.userId.toString() !== userId, negated
IsOwner(todo, userId) == todo.userId = userId

\* a test that looks at the first share only
IsSharedWithFirst(todo, userId) ==
    Len(todo.sharedWith) > 0 /\ todo.sharedWith[1].userId = userId

\* todo.sharedWith.some(s => s.userId.toString() === userId)
IsSharedWith(todo, userId) ==
    \E i \in 1..Len(todo.sharedWith) : todo.sharedWith[i].userId = userId

\* res.status(code).json(...) or next(error)
Respond(op, userId, todoId, subtaskId, todoIds, body, code) ==
    last' = [op |-> op, userId |-> userId, todoId |-> todoId,
             subtaskId |-> subtaskId, todoIds |-> todoIds, body |-> body,
             code |-> code]

\* the response of a handler that ran without interleaving; the to-do
\* handlers touch neither the User collection nor the limiter
Reply(op, userId, todoId, subtaskId, todoIds, body, code) ==
    /\ Respond(op, userId, todoId, subtaskId, todoIds, body, code)
    /\ UNCHANGED <<requests, refreshTokens, loginAttempts, limiter, now, history>>

RECURSIVE LogEntries(_)
LogEntries(n) ==
    IF n = 0 THEN 0 ELSE Len(todos[n].activityLog) + LogEntries(n - 1)

\* requests are taken while the collection holds fewer than MaxLog activity
\* entries in all
LogRoom == LogEntries(Len(todos)) < MaxLog

(***************************************************************************)
(* Request validators (middlewares/todo.validator)                         *)
(***************************************************************************)
validateTodo(body) ==
    /\ Has(body, "title") /\ body.title # ""
    /\ StrLen(body.title) >= 3
    /\ Has(body, "priority") => body.priority \in validPriorities
    /\ Has(body, "status") => body.status \in validStatuses

validateSubtask(body) ==
    /\ Has(body, "title") /\ body.title # ""
    /\ StrLen(body.title) >= 3
    /\ Has(body, "priority") => body.priority \in validPriorities
    /\ Has(body, "status") => body.status \in validStatuses

OrStr(body, k, default) ==
    IF Has(body, k) /\ body[k] # "" THEN body[k] ELSE default

OrDate(body, k) ==
    IF Has(body, k) /\ body[k] # NullDate THEN body[k] ELSE NullDate

(***************************************************************************)
(* Handlers                                                                *)
(***************************************************************************)
\* POST /api/todos
createTodo(userId, body) ==
    /\ LogRoom
    /\ Len(todos) < MaxTodos
    /\ IF ~validateTodo(body)
       THEN /\ Reply("createTodo", userId, 0, 0, <<>>, body, 400)
            /\ UNCHANGED <<todos, nextSubId>>
       ELSE /\ todos' = Append(todos,
                create(NewTodo(userId, body.title,
                               OrStr(body, "description", ""),
                               OrStr(body, "priority", "medium"),
                               OrDate(body, "dueDate"),
                               OrStr(body, "category", "general"),
                               IF Has(body, "tags") THEN body.tags ELSE <<>>,
                               0, <<>>)))
            /\ Reply("createTodo", userId, Len(todos) + 1, 0, <<>>, body, 201)
            /\ UNCHANGED nextSubId

\* POST /api/todos/:todoId/subtasks
addSubtask(userId, todoId, body) ==
    /\ LogRoom
    /\ nextSubId <= MaxSubtasks
    /\ IF ~validateSubtask(body)
       THEN /\ Reply("addSubtask", userId, todoId, 0, <<>>, body, 400)
            /\ UNCHANGED <<todos, nextSubId>>
       ELSE IF ~Exists(todoId)
       THEN /\ Reply("addSubtask", userId, todoId, 0, <<>>, body, 404)
            /\ UNCHANGED <<todos, nextSubId>>
       ELSE IF ~IsOwner(todos[todoId], userId) /\ ~IsSharedWith(todos[todoId], userId)
       THEN /\ Reply("addSubtask", userId, todoId, 0, <<>>, body, 403)
            /\ UNCHANGED <<todos, nextSubId>>
       ELSE LET todo == todos[todoId]
                newSubtask == SubTodo(nextSubId, body.title,
                                      OrStr(body, "description", ""),
                                      OrStr(body, "priority", "medium"),
                                      OrDate(body, "dueDate"), <<>>)
                doc == [todo EXCEPT
                          !.subtasks = Append(@, newSubtask),
                          !.activityLog = Append(@,
                              Entry("updated", userId, "added" :> "subtask"))]
            IN /\ todos' = [todos EXCEPT ![todoId] = save(todo, doc, FALSE)]
               /\ nextSubId' = nextSubId + 1
               /\ Reply("addSubtask", userId, todoId, nextSubId, <<>>, body, 201)

\* PATCH /api/todos/:todoId/subtasks/:subtaskId
updateSubtask(userId, todoId, subtaskId, body) ==
    /\ LogRoom
    /\ IF ~validateSubtask(body)
       THEN /\ Reply("updateSubtask", userId, todoId, subtaskId, <<>>, body, 400)
            /\ UNCHANGED <<todos, nextSubId>>
       ELSE IF ~Exists(todoId)
       THEN /\ Reply("updateSubtask", userId, todoId, subtaskId, <<>>, body, 404)
            /\ UNCHANGED <<todos, nextSubId>>
       ELSE IF ~IsOwner(todos[todoId], userId)
       THEN /\ Reply("updateSubtask", userId, todoId, subtaskId, <<>>, body, 403)
            /\ UNCHANGED <<todos, nextSubId>>
       ELSE LET todo == todos[todoId]
                r == findAndUpdateSubtask(todo.subtasks, subtaskId, body)
                doc == [todo EXCEPT
                          !.subtasks = r.subtasks,
                          !.activityLog = Append(@,
                              Entry("updated", userId, "updated" :> "subtask"))]
            IN IF ~r.found
               THEN /\ Reply("updateSubtask", userId, todoId, subtaskId, <<>>, body, 404)
                    /\ UNCHANGED <<todos, nextSubId>>
               ELSE /\ todos' = [todos EXCEPT ![todoId] =
                                    save(todo, doc, Has(body, "completed") /\ body.completed)]
                    /\ Reply("updateSubtask", userId, todoId, subtaskId, <<>>, body, 200)
                    /\ UNCHANGED nextSubId

\* DELETE /api/todos/:todoId/subtasks/:subtaskId
deleteSubtask(userId, todoId, subtaskId) ==
    /\ LogRoom
    /\ IF ~Exists(todoId)
       THEN /\ Reply("deleteSubtask", userId, todoId, subtaskId, <<>>, NoBody, 404)
            /\ UNCHANGED <<todos, nextSubId>>
       ELSE IF ~IsOwner(todos[todoId], userId)
       THEN /\ Reply("deleteSubtask", userId, todoId, subtaskId, <<>>, NoBody, 403)
            /\ UNCHANGED <<todos, nextSubId>>
       ELSE LET todo == todos[todoId]
                r == deleteSubtaskHelper(todo.subtasks, subtaskId)
                doc == [todo EXCEPT !.subtasks = r.subtasks]
            IN IF ~r.deleted
               THEN /\ Reply("deleteSubtask", userId, todoId, subtaskId, <<>>, NoBody, 404)
                    /\ UNCHANGED <<todos, nextSubId>>
               ELSE /\ todos' = [todos EXCEPT ![todoId] = save(todo, doc, FALSE)]
                    /\ Reply("deleteSubtask", userId, todoId, subtaskId, <<>>, NoBody, 200)
                    /\ UNCHANGED nextSubId

\* POST /api/todos/:todoId/duplicate
\* a duplicate that clones the stored document, its log and shares included
duplicateTodoClone(userId, todoId) ==
    /\ LogRoom
    /\ Len(todos) < MaxTodos
    /\ IF ~Exists(todoId)
       THEN /\ Reply("duplicateTodo", userId, todoId, 0, <<>>, NoBody, 404)
            /\ UNCHANGED <<todos, nextSubId>>
       ELSE IF ~IsOwner(todos[todoId], userId)
       THEN /\ Reply("duplicateTodo", userId, todoId, 0, <<>>, NoBody, 403)
            /\ UNCHANGED <<todos, nextSubId>>
       ELSE /\ todos' = Append(todos, [todos[todoId] EXCEPT !.title = "copy"])
            /\ Reply("duplicateTodo", userId, todoId, 0, <<>>, NoBody, 201)
            /\ UNCHANGED nextSubId

duplicateTodo(userId, todoId) ==
    /\ LogRoom
    /\ Len(todos) < MaxTodos
    /\ IF ~Exists(todoId)
       THEN /\ Reply("duplicateTodo", userId, todoId, 0, <<>>, NoBody, 404)
            /\ UNCHANGED <<todos, nextSubId>>
       ELSE IF ~IsOwner(todos[todoId], userId)
       THEN /\ Reply("duplicateTodo", userId, todoId, 0, <<>>, NoBody, 403)
            /\ UNCHANGED <<todos, nextSubId>>
       ELSE LET originalTodo == todos[todoId]
            IN /\ todos' = Append(todos,
                     create(NewTodo(userId, "copy", originalTodo.description,
                                    originalTodo.priority, NullDate,
                                    originalTodo.category, originalTodo.tags,
                                    originalTodo.estimatedTime,
                                    originalTodo.subtasks)))
               /\ Reply("duplicateTodo", userId, todoId, 0, <<>>, NoBody, 201)
               /\ UNCHANGED nextSubId

\* the documents Todo.find({ _id: { $in: todoIds }, userId }) returns
OwnedAmong(todoIds, userId) ==
    {t \in 1..Len(todos) :
        /\ \E i \in 1..Len(todoIds) : todoIds[i] = t
        /\ todos[t].userId = userId}

\* { $set: updates, $push: { activityLog: entry } } on one document
applyBulkUpdate(todo, userId, updates) ==
    LET set == [k \in DOMAIN todo |->
                   IF k \in DOMAIN updates THEN updates[k] ELSE todo[k]]
    IN [set EXCEPT !.activityLog =
            Append(@, Entry("updated", userId, updates))]

\* PATCH /api/todos/bulk/update (the route installs no validator)
\* a bulk update that writes the owned part of the batch
bulkUpdateTodosPartial(userId, todoIds, updates) ==
    /\ LogRoom
    /\ IF Len(todoIds) = 0 \/ DOMAIN updates = {}
       THEN /\ Reply("bulkUpdateTodos", userId, 0, 0, todoIds, updates, 400)
            /\ UNCHANGED <<todos, nextSubId>>
       ELSE /\ todos' = [t \in 1..Len(todos) |->
                            IF t \in OwnedAmong(todoIds, userId)
                            THEN applyBulkUpdate(todos[t], userId, updates)
                            ELSE todos[t]]
            /\ Reply("bulkUpdateTodos", userId, 0, 0, todoIds, updates,
                     IF Cardinality(OwnedAmong(todoIds, userId)) # Len(todoIds)
                     THEN 403 ELSE 200)
            /\ UNCHANGED nextSubId

bulkUpdateTodos(userId, todoIds, updates) ==
    /\ LogRoom
    /\ IF Len(todoIds) = 0 \/ DOMAIN updates = {}
       THEN /\ Reply("bulkUpdateTodos", userId, 0, 0, todoIds, updates, 400)
            /\ UNCHANGED <<todos, nextSubId>>
       ELSE IF Cardinality(OwnedAmong(todoIds, userId)) # Len(todoIds)
       THEN /\ Reply("bulkUpdateTodos", userId, 0, 0, todoIds, updates, 403)
            /\ UNCHANGED <<todos, nextSubId>>
       ELSE IF "activityLog" \in DOMAIN updates
       THEN \* $set and $push on one path: the update is refused whole
            /\ Reply("bulkUpdateTodos", userId, 0, 0, todoIds, updates, 500)
            /\ UNCHANGED <<todos, nextSubId>>
       ELSE /\ todos' = [t \in 1..Len(todos) |->
                            IF t \in OwnedAmong(todoIds, userId)
                            THEN applyBulkUpdate(todos[t], userId, updates)
                            ELSE todos[t]]
            /\ Reply("bulkUpdateTodos", userId, 0, 0, todoIds, updates, 200)
            /\ UNCHANGED nextSubId

\* the keys of `changes` that updateTodo fills in for a body
ChangedKeys(todo, body) ==
    {k \in DOMAIN body :
        \/ k \in {"title", "status", "priority", "category"}
             /\ body[k] # "" /\ body[k] # todo[k]
        \/ k \in {"description", "label"} /\ body[k] # todo[k]
        \/ k = "dueDate" /\ body[k] # NullDate
        \/ k = "tags"}

\* PATCH /api/todos/:todoId
updateTodo(userId, todoId, body) ==
    /\ LogRoom
    /\ IF ~validateTodo(body)
       THEN /\ Reply("updateTodo", userId, todoId, 0, <<>>, body, 400)
            /\ UNCHANGED <<todos, nextSubId>>
       ELSE IF ~Exists(todoId)
       THEN /\ Reply("updateTodo", userId, todoId, 0, <<>>, body, 404)
            /\ UNCHANGED <<todos, nextSubId>>
       ELSE IF ~IsOwner(todos[todoId], userId)
       THEN /\ Reply("updateTodo", userId, todoId, 0, <<>>, body, 403)
            /\ UNCHANGED <<todos, nextSubId>>
       ELSE LET todo == todos[todoId]
                keys == ChangedKeys(todo, body)
                changes == [k \in keys |-> [old |-> todo[k], new |-> body[k]]]
                assigned == [k \in DOMAIN todo |->
                                IF k \in keys THEN body[k] ELSE todo[k]]
                doc == IF keys # {}
                       THEN [assigned EXCEPT !.activityLog =
                                Append(@, Entry("updated", userId, changes))]
                       ELSE assigned
            IN /\ todos' = [todos EXCEPT ![todoId] = save(todo, doc, FALSE)]
               /\ Reply("updateTodo", userId, todoId, 0, <<>>, body, 200)
               /\ UNCHANGED nextSubId

\* todoSchema.methods.complete
complete(todo) ==
    save(todo, [todo EXCEPT !.completed = TRUE, !.status = "completed",
                            !.completedAt = Now], TRUE)

\* todoSchema.methods.incomplete
incomplete(todo) ==
    save(todo, [todo EXCEPT !.completed = FALSE, !.status = "todo",
                            !.completedAt = NullDate], FALSE)

\* PATCH /api/todos/:todoId/complete
completeTodo(userId, todoId) ==
    /\ LogRoom
    /\ IF ~Exists(todoId)
       THEN /\ Reply("completeTodo", userId, todoId, 0, <<>>, NoBody, 404)
            /\ UNCHANGED <<todos, nextSubId>>
       ELSE IF ~IsOwner(todos[todoId], userId)
       THEN /\ Reply("completeTodo", userId, todoId, 0, <<>>, NoBody, 403)
            /\ UNCHANGED <<todos, nextSubId>>
       ELSE LET d1 == complete(todos[todoId])
                d2 == [d1 EXCEPT !.activityLog =
                          Append(@, Entry("completed", userId, NoChanges))]
            IN /\ todos' = [todos EXCEPT ![todoId] = save(d1, d2, FALSE)]
               /\ Reply("completeTodo", userId, todoId, 0, <<>>, NoBody, 200)
               /\ UNCHANGED nextSubId

\* PATCH /api/todos/:todoId/incomplete
incompleteTodo(userId, todoId) ==
    /\ LogRoom
    /\ IF ~Exists(todoId)
       THEN /\ Reply("incompleteTodo", userId, todoId, 0, <<>>, NoBody, 404)
            /\ UNCHANGED <<todos, nextSubId>>
       ELSE IF ~IsOwner(todos[todoId], userId)
       THEN /\ Reply("incompleteTodo", userId, todoId, 0, <<>>, NoBody, 403)
            /\ UNCHANGED <<todos, nextSubId>>
       ELSE /\ todos' = [todos EXCEPT ![todoId] = incomplete(@)]
            /\ Reply("incompleteTodo", userId, todoId, 0, <<>>, NoBody, 200)
            /\ UNCHANGED nextSubId

\* User.findById(id) finds a document
UserExists(id) == id \in Users

\* shareTodo pushing the grant before it looks for an existing one
shareTodoPushFirst(currentUserId, todoId, body) ==
    LET permissions == IF Has(body, "permissions") THEN body.permissions ELSE "view"
    IN
    /\ LogRoom
    /\ IF ~(Has(body, "userId") /\ body.userId # "")
       THEN /\ Reply("shareTodo", currentUserId, todoId, 0, <<>>, body, 400)
            /\ UNCHANGED <<todos, nextSubId>>
       ELSE IF permissions \notin validPermissions
       THEN /\ Reply("shareTodo", currentUserId, todoId, 0, <<>>, body, 400)
            /\ UNCHANGED <<todos, nextSubId>>
       ELSE IF ~Exists(todoId)
       THEN /\ Reply("shareTodo", currentUserId, todoId, 0, <<>>, body, 404)
            /\ UNCHANGED <<todos, nextSubId>>
       ELSE IF ~IsOwner(todos[todoId], currentUserId)
       THEN /\ Reply("shareTodo", currentUserId, todoId, 0, <<>>, body, 403)
            /\ UNCHANGED <<todos, nextSubId>>
       ELSE LET todo == todos[todoId]
                doc == [todo EXCEPT !.sharedWith =
                           Append(@, [userId |-> body.userId,
                                      permissions |-> permissions])]
            IN /\ todos' = [todos EXCEPT ![todoId] = save(todo, doc, FALSE)]
               /\ Reply("shareTodo", currentUserId, todoId, 0, <<>>, body,
                        IF IsSharedWith(todo, body.userId) THEN 400
                        ELSE IF ~UserExists(body.userId) THEN 404 ELSE 200)
               /\ UNCHANGED nextSubId

\* POST /api/todos/:todoId/share
shareTodo(currentUserId, todoId, body) ==
    LET permissions == IF Has(body, "permissions") THEN body.permissions ELSE "view"
    IN
    /\ LogRoom
    /\ IF ~(Has(body, "userId") /\ body.userId # "")
       THEN /\ Reply("shareTodo", currentUserId, todoId, 0, <<>>, body, 400)
            /\ UNCHANGED <<todos, nextSubId>>
       ELSE IF permissions \notin validPermissions
       THEN /\ Reply("shareTodo", currentUserId, todoId, 0, <<>>, body, 400)
            /\ UNCHANGED <<todos, nextSubId>>
       ELSE IF ~Exists(todoId)
       THEN /\ Reply("shareTodo", currentUserId, todoId, 0, <<>>, body, 404)
            /\ UNCHANGED <<todos, nextSubId>>
       ELSE IF ~IsOwner(todos[todoId], currentUserId)
       THEN /\ Reply("shareTodo", currentUserId, todoId, 0, <<>>, body, 403)
            /\ UNCHANGED <<todos, nextSubId>>
       ELSE IF IsSharedWith(todos[todoId], body.userId)
       THEN /\ Reply("shareTodo", currentUserId, todoId, 0, <<>>, body, 400)
            /\ UNCHANGED <<todos, nextSubId>>
       ELSE IF ~UserExists(body.userId)
       THEN /\ Reply("shareTodo", currentUserId, todoId, 0, <<>>, body, 404)
            /\ UNCHANGED <<todos, nextSubId>>
       ELSE LET todo == todos[todoId]
                doc == [todo EXCEPT !.sharedWith =
                           Append(@, [userId |-> body.userId,
                                      permissions |-> permissions])]
            IN /\ todos' = [todos EXCEPT ![todoId] = save(todo, doc, FALSE)]
               /\ Reply("shareTodo", currentUserId, todoId, 0, <<>>, body, 200)
               /\ UNCHANGED nextSubId

\* DELETE /api/todos/:todoId/share/:shareWithUserId
revokeTodoShare(currentUserId, todoId, shareWithUserId) ==
    /\ LogRoom
    /\ IF ~Exists(todoId)
       THEN /\ Reply("revokeTodoShare", currentUserId, todoId, 0, <<>>,
                     [userId |-> shareWithUserId], 404)
            /\ UNCHANGED <<todos, nextSubId>>
       ELSE IF ~IsOwner(todos[todoId], currentUserId)
       THEN /\ Reply("revokeTodoShare", currentUserId, todoId, 0, <<>>,
                     [userId |-> shareWithUserId], 403)
            /\ UNCHANGED <<todos, nextSubId>>
       ELSE LET todo == todos[todoId]
                keep(s) == s.userId # shareWithUserId
                doc == [todo EXCEPT !.sharedWith = SelectSeq(@, keep)]
            IN /\ todos' = [todos EXCEPT ![todoId] = save(todo, doc, FALSE)]
               /\ Reply("revokeTodoShare", currentUserId, todoId, 0, <<>>,
                        [userId |-> shareWithUserId], 200)
               /\ UNCHANGED nextSubId

\* a softDelete that stamps deletedAt and leaves isDeleted alone
softDeleteStampOnly(todo) == [todo EXCEPT !.deletedAt = Now]

\* todoSchema.statics.softDelete (findByIdAndUpdate runs no save hook)
softDelete(todo) == [todo EXCEPT !.isDeleted = TRUE, !.deletedAt = Now]

\* DELETE /api/todos/:todoId
deleteTodo(userId, todoId) ==
    /\ LogRoom
    /\ IF ~Exists(todoId)
       THEN /\ Reply("deleteTodo", userId, todoId, 0, <<>>, NoBody, 404)
            /\ UNCHANGED <<todos, nextSubId>>
       ELSE IF ~IsOwner(todos[todoId], userId)
       THEN /\ Reply("deleteTodo", userId, todoId, 0, <<>>, NoBody, 403)
            /\ UNCHANGED <<todos, nextSubId>>
       ELSE /\ todos' = [todos EXCEPT ![todoId] = softDelete(@)]
            /\ Reply("deleteTodo", userId, todoId, 0, <<>>, NoBody, 200)
            /\ UNCHANGED nextSubId

\* DELETE /api/todos/bulk/delete
bulkDeleteTodos(userId, todoIds) ==
    /\ LogRoom
    /\ IF Len(todoIds) = 0
       THEN /\ Reply("bulkDeleteTodos", userId, 0, 0, todoIds, NoBody, 400)
            /\ UNCHANGED <<todos, nextSubId>>
       ELSE IF Cardinality(OwnedAmong(todoIds, userId)) # Len(todoIds)
       THEN /\ Reply("bulkDeleteTodos", userId, 0, 0, todoIds, NoBody, 403)
            /\ UNCHANGED <<todos, nextSubId>>
       ELSE /\ todos' = [t \in 1..Len(todos) |->
                            IF t \in OwnedAmong(todoIds, userId)
                            THEN [todos[t] EXCEPT !.isDeleted = TRUE,
                                                  !.deletedAt = Now]
                            ELSE todos[t]]
            /\ Reply("bulkDeleteTodos", userId, 0, 0, todoIds, NoBody, 200)
            /\ UNCHANGED nextSubId

(***************************************************************************)
(* Listings: each operator is the set of _ids the query matches            *)
(***************************************************************************)
\* GET /api/todos (parentId is null in every document the handlers write)
getAllTodos(userId, query) ==
    {t \in 1..Len(todos) :
        /\ todos[t].userId = userId
        /\ todos[t].isDeleted = FALSE
        /\ \A k \in DOMAIN query : todos[t][k] = query[k]}

findByUserAndStatus(userId, status) ==
    {t \in 1..Len(todos) :
        /\ todos[t].userId = userId
        /\ todos[t].status = status
        /\ todos[t].isDeleted = FALSE}

\* a findOverdue whose filter omits isDeleted
findOverdueAny(userId, at) ==
    {t \in 1..Len(todos) :
        /\ todos[t].userId = userId
        /\ todos[t].dueDate # NullDate /\ todos[t].dueDate < at
        /\ todos[t].completed = FALSE}

\* `at` is the value of new Date() when the query is built
findOverdue(userId, at) ==
    {t \in 1..Len(todos) :
        /\ todos[t].userId = userId
        /\ todos[t].dueDate # NullDate /\ todos[t].dueDate < at
        /\ todos[t].completed = FALSE
        /\ todos[t].isDeleted = FALSE}

findByPriority(userId, priority) ==
    {t \in 1..Len(todos) :
        /\ todos[t].userId = userId
        /\ todos[t].priority = priority
        /\ todos[t].isDeleted = FALSE}

getArchivedTodos(userId) ==
    {t \in 1..Len(todos) :
        /\ todos[t].userId = userId
        /\ todos[t].isArchived = TRUE
        /\ todos[t].isDeleted = FALSE}

getTodayTodos(userId, startOfDay, endOfDay) ==
    {t \in 1..Len(todos) :
        /\ todos[t].userId = userId
        /\ todos[t].dueDate # NullDate
        /\ todos[t].dueDate >= startOfDay /\ todos[t].dueDate <= endOfDay
        /\ todos[t].isDeleted = FALSE}

getTodosByTag(userId, tag) ==
    {t \in 1..Len(todos) :
        /\ todos[t].userId = userId
        /\ \E i \in 1..Len(todos[t].tags) : todos[t].tags[i] = tag
        /\ todos[t].isDeleted = FALSE}

\* the documents Todo.distinct('tags', ...) draws the tags from
allTagsDocs(userId) ==
    {t \in 1..Len(todos) :
        todos[t].userId = userId /\ todos[t].isDeleted = FALSE}

getAllTags(userId) ==
    UNION {{todos[t].tags[i] : i \in 1..Len(todos[t].tags)} :
             t \in allTagsDocs(userId)}

\* { $regex: query, $options: 'i' } on the strings the requests carry
RegexTest(query, text) ==
    \/ query = "ab" /\ text \in {"abc"}
    \/ query = "yz" /\ text \in {"xyz"}
    \/ query = "xx" /\ text \in {"xx"}

searchTodos(userId, query) ==
    {t \in 1..Len(todos) :
        /\ todos[t].userId = userId
        /\ todos[t].isDeleted = FALSE
        /\ \/ RegexTest(query, todos[t].title)
           \/ RegexTest(query, todos[t].description)
           \/ \E i \in 1..Len(todos[t].tags) : RegexTest(query, todos[t].tags[i])}

\* the documents getTodoStats counts
statsDocs(userId, at) ==
    UNION {findByUserAndStatus(userId, st) :
             st \in {"todo", "in-progress", "completed", "blocked"}}
    \cup findOverdue(userId, at)
    \cup {t \in 1..Len(todos) :
            /\ todos[t].userId = userId
            /\ todos[t].priority = "urgent"
            /\ todos[t].completed = FALSE
            /\ todos[t].isDeleted = FALSE}

(***************************************************************************)
(* Initial state and the requests of the subtask-tree specification        *)
(***************************************************************************)
NoRequest ==
    [op |-> "none", userId |-> "none", todoId |-> 0, subtaskId |-> 0,
     todoIds |-> <<>>, body |-> NoBody, code |-> 0]

\* the slots of the requests in flight
Slots == {"r1", "r2"}

Idle == [pc |-> "idle"]

\* rateLimitAuth(maxAttempts = 5, windowMs = 15 * 60 * 1000)
DefaultLimiter == [maxAttempts |-> 5, windowMs |-> 900000]

Init ==
    /\ todos = <<>>
    /\ nextSubId = 1
    /\ last = NoRequest
    /\ requests = [r \in Slots |-> Idle]
    /\ refreshTokens = [u \in Users |-> <<>>]
    /\ loginAttempts = <<>>
    /\ limiter = DefaultLimiter
    /\ now = 0
    /\ history = <<>>

\* a nested tree as a client can write it through the bulk update: ids 11..14,
\* 12 and 14 children of 11, 13 a child of 12
ClientNode(id, completed, kids) ==
    [SubTodo(id, "sub", "", "medium", NullDate, kids) EXCEPT
        !.completed = completed]

ClientTree ==
    <<ClientNode(11, FALSE,
        <<ClientNode(12, TRUE, <<ClientNode(13, FALSE, <<>>)>>),
          ClientNode(14, FALSE, <<>>)>>)>>

ClientIds == {11, 12, 13, 14}

\* the subtask-tree requests are the owner's
TreeUsers == {"u1"}
TreeCreateBodies == {[title |-> "abc"]}
TreeSubtaskBodies ==
    {[title |-> "new", completed |-> TRUE],
     [title |-> "sub", completed |-> FALSE]}
\* bodies of POST /:todoId/subtasks; the second names a parent node
TreeAddBodies ==
    {[title |-> "new"], [title |-> "sub", parentId |-> 12]}
TreeBulkUpdates == {[subtasks |-> ClientTree]}
TreeBulkIds == {<<1>>}
TreeSubIds == (1..MaxSubtasks) \cup ClientIds

NextTree ==
    \/ \E u \in TreeUsers, b \in TreeCreateBodies : createTodo(u, b)
    \/ \E u \in TreeUsers, t \in 1..MaxTodos, b \in TreeAddBodies :
           addSubtask(u, t, b)
    \/ \E u \in TreeUsers, t \in 1..MaxTodos, s \in TreeSubIds,
          b \in TreeSubtaskBodies : updateSubtask(u, t, s, b)
    \/ \E u \in TreeUsers, t \in 1..MaxTodos, s \in TreeSubIds :
           deleteSubtask(u, t, s)
    \/ \E u \in TreeUsers, t \in 1..MaxTodos : duplicateTodo(u, t)
    \/ \E u \in TreeUsers, ids \in TreeBulkIds, up \in TreeBulkUpdates :
           bulkUpdateTodos(u, ids, up)

SpecTree == Init /\ [][NextTree]_vars

(***************************************************************************)
(* Vocabulary of the properties                                            *)
(***************************************************************************)
\* every node of a tree, parents before children, siblings in order
RECURSIVE Flatten(_)
Flatten(tasks) ==
    IF Len(tasks) = 0 THEN <<>>
    ELSE <<Head(tasks)>> \o Flatten(Head(tasks).subtasks) \o Flatten(Tail(tasks))

IdsOf(tasks) == {Flatten(tasks)[i]._id : i \in 1..Len(Flatten(tasks))}

NodeCount(tasks) == Len(Flatten(tasks))

CompletedCount(tasks) ==
    Cardinality({i \in 1..Len(Flatten(tasks)) : Flatten(tasks)[i].completed})

\* the tree without the nodes whose id is `id` and without their subtrees
RECURSIVE Prune(_, _)
Prune(tasks, id) ==
    IF Len(tasks) = 0 THEN <<>>
    ELSE IF Head(tasks)._id = id THEN Prune(Tail(tasks), id)
    ELSE <<[Head(tasks) EXCEPT !.subtasks = Prune(@, id)]>>
         \o Prune(Tail(tasks), id)

Succeeded == last'.code \in {200, 201}

\* the request of this step was made by the owner of an existing todo
ByOwner ==
    /\ last'.todoId \in 1..Len(todos)
    /\ todos[last'.todoId].userId = last'.userId

(***************************************************************************)
(* C1: after a successful createTodo, addSubtask, updateSubtask,           *)
(* deleteSubtask or duplicateTodo, the stored checklistProgress of the     *)
(* task written has total = number of subtask nodes at all depths and      *)
(* completed = number of those nodes with completed = true ({0,0} when the *)
(* task has no subtasks).                                                  *)
(***************************************************************************)
Written == IF last'.op \in {"createTodo", "duplicateTodo"}
           THEN Len(todos') ELSE last'.todoId

C1_ProgressCountsTree ==
    [][(/\ last'.op \in {"createTodo", "addSubtask", "updateSubtask",
                         "deleteSubtask", "duplicateTodo"}
        /\ Succeeded)
       => todos'[Written].checklistProgress =
              [total |-> NodeCount(todos'[Written].subtasks),
               completed |-> CompletedCount(todos'[Written].subtasks)]]_vars

\* a node at depth 3 was completed in a four-node tree that already held a
\* completed node
C1_Witness ==
    /\ last.op = "updateSubtask" /\ last.code = 200 /\ last.subtaskId = 13
    /\ last.body.completed
    /\ todos[last.todoId].checklistProgress = [total |-> 4, completed |-> 2]

(***************************************************************************)
(* C9: updateSubtask by the owner with a valid body and a subtask id that  *)
(* no node of the task's tree carries answers 404 and leaves the stored    *)
(* collection as it was.                                                   *)
(***************************************************************************)
C9_UnknownSubtaskNoChange ==
    [][(/\ last'.op = "updateSubtask"
        /\ validateSubtask(last'.body)
        /\ ByOwner
        /\ last'.subtaskId \notin IdsOf(todos[last'.todoId].subtasks))
       => (last'.code = 404 /\ todos' = todos)]_vars

\* the id was looked for in a nested tree of four nodes and not found
C9_Witness ==
    /\ last.op = "updateSubtask" /\ last.code = 404
    /\ last.todoId \in 1..Len(todos)
    /\ todos[last.todoId].userId = last.userId
    /\ NodeCount(todos[last.todoId].subtasks) = 4
    /\ last.subtaskId \notin IdsOf(todos[last.todoId].subtasks)

(***************************************************************************)
(* C10: deleteSubtask by the owner with the id of a node (at any depth)    *)
(* stores the tree without that node and its subtree, every other node and *)
(* the order of siblings as before; with an id that no node carries it     *)
(* answers 404 and nothing is removed.                                     *)
(***************************************************************************)
C10_DeleteRemovesSubtree ==
    [][(last'.op = "deleteSubtask" /\ ByOwner)
       => IF last'.subtaskId \in IdsOf(todos[last'.todoId].subtasks)
          THEN /\ last'.code = 200
               /\ todos'[last'.todoId].subtasks =
                      Prune(todos[last'.todoId].subtasks, last'.subtaskId)
               /\ \A t \in 1..Len(todos) :
                      t # last'.todoId => todos'[t] = todos[t]
          ELSE last'.code = 404 /\ todos' = todos]_vars

\* node 12 (depth 2, parent of 13, elder sibling of 14) was removed: 11 and
\* 14 remain
C10_Witness ==
    /\ last.op = "deleteSubtask" /\ last.code = 200 /\ last.subtaskId = 12
    /\ IdsOf(todos[last.todoId].subtasks) = {11, 14}

(***************************************************************************)
(* The lifecycle specification: create, update, complete, share, delete    *)
(***************************************************************************)
\* a due date, and the clock values a query can be built at
DueDate == 2
Times == 1..3

LifeCreateBodies ==
    {[title |-> "abc"], [title |-> "abc", dueDate |-> DueDate, tags |-> <<"xx">>]}
LifeUpdateBodies ==
    {[title |-> "abc"],
     [title |-> "xyz"],
     [title |-> "abc", status |-> "completed"],
     [title |-> "xyz", priority |-> "high"],
     [title |-> "abc", description |-> "", status |-> "todo",
      priority |-> "medium", category |-> "general", label |-> Null],
     [title |-> "abc", tags |-> <<>>],
     [title |-> "abc", dueDate |-> DueDate]}
LifeShareBodies ==
    {[userId |-> "u2", permissions |-> "view"],
     [userId |-> "u2", permissions |-> "edit"]}
LifeBulkUpdates == {[status |-> "completed"], [status |-> "todo"]}
LifeBulkIds == {<<1>>, <<1, 2>>}

NextLife ==
    \/ \E b \in LifeCreateBodies : createTodo("u1", b)
    \/ \E u \in Users, t \in 1..MaxTodos, b \in LifeUpdateBodies :
           updateTodo(u, t, b)
    \/ \E t \in 1..MaxTodos : completeTodo("u1", t)
    \/ \E t \in 1..MaxTodos : incompleteTodo("u1", t)
    \/ \E t \in 1..MaxTodos, b \in LifeShareBodies : shareTodo("u1", t, b)
    \/ \E t \in 1..MaxTodos : revokeTodoShare("u1", t, "u2")
    \/ \E u \in Users, t \in 1..MaxTodos : deleteTodo(u, t)
    \/ \E ids \in LifeBulkIds : bulkDeleteTodos("u1", ids)
    \/ \E ids \in LifeBulkIds, up \in LifeBulkUpdates :
           bulkUpdateTodos("u1", ids, up)

SpecLife == Init /\ [][NextLife]_vars

(***************************************************************************)
(* The whole service: every handler, each with few requests                *)
(***************************************************************************)
AllCreateBodies == {[title |-> "abc", dueDate |-> DueDate, tags |-> <<"xx">>]}
AllUpdateBodies == {[title |-> "xyz", priority |-> "urgent"]}
AllSubtaskBodies == {[title |-> "sub", completed |-> TRUE]}
AllShareBodies == {[userId |-> "u2", permissions |-> "edit"]}
AllBulkUpdates == {[subtasks |-> ClientTree], [activityLog |-> <<>>]}
AllBulkIds == {<<1>>, <<1, 2>>}
AllSubIds == {1, 12}

Next ==
    \/ \E b \in AllCreateBodies : createTodo("u1", b)
    \/ \E t \in 1..MaxTodos, b \in AllSubtaskBodies : addSubtask("u1", t, b)
    \/ \E t \in 1..MaxTodos, s \in AllSubIds, b \in AllSubtaskBodies :
           updateSubtask("u1", t, s, b)
    \/ \E t \in 1..MaxTodos, s \in AllSubIds : deleteSubtask("u1", t, s)
    \/ \E t \in 1..MaxTodos : duplicateTodo("u1", t)
    \/ \E u \in Users, t \in 1..MaxTodos, b \in AllUpdateBodies :
           updateTodo(u, t, b)
    \/ \E t \in 1..MaxTodos : completeTodo("u1", t)
    \/ \E t \in 1..MaxTodos : incompleteTodo("u1", t)
    \/ \E t \in 1..MaxTodos, b \in AllShareBodies : shareTodo("u1", t, b)
    \/ \E t \in 1..MaxTodos : revokeTodoShare("u1", t, "u2")
    \/ \E t \in 1..MaxTodos : deleteTodo("u1", t)
    \/ \E ids \in AllBulkIds : bulkDeleteTodos("u1", ids)
    \/ \E ids \in AllBulkIds, up \in AllBulkUpdates :
           bulkUpdateTodos("u1", ids, up)

Spec == Init /\ [][Next]_vars

(***************************************************************************)
(* C2: in every stored state every task has completed = true exactly when  *)
(* its status is 'completed'.                                              *)
(***************************************************************************)
C2_CompletedIffStatus ==
    \A t \in 1..Len(todos) :
        todos[t].completed <=> (todos[t].status = "completed")

(***************************************************************************)
(* C3: updateTodo with a valid body on an existing task is accepted for    *)
(* the owner and for a non-owner whose sharedWith entry grants edit or     *)
(* admin, and answers 403 for a non-owner whose entry grants view only.    *)
(***************************************************************************)
Grants(todo, userId, permissions) ==
    \E i \in 1..Len(todo.sharedWith) :
        /\ todo.sharedWith[i].userId = userId
        /\ todo.sharedWith[i].permissions \in permissions

C3_UpdateNeedsEdit ==
    [][(/\ last'.op = "updateTodo"
        /\ validateTodo(last'.body)
        /\ Exists(last'.todoId))
       => LET todo == todos[last'.todoId]
              u == last'.userId
          IN /\ (todo.userId = u \/ Grants(todo, u, {"edit", "admin"}))
                    => last'.code = 200
             /\ (todo.userId # u /\ ~Grants(todo, u, {"edit", "admin"})
                    /\ Grants(todo, u, {"view"}))
                    => last'.code = 403]_vars

(***************************************************************************)
(* C4: a successful updateTodo that changes at least one top-level field   *)
(* appends exactly one entry to the activityLog: an `updated` entry whose  *)
(* changes map has an {old, new} pair for each changed field.              *)
(***************************************************************************)
FieldsChanged(todo, body) == {k \in DOMAIN body : body[k] # todo[k]}

C4_OneEntryPerUpdate ==
    [][(/\ last'.op = "updateTodo" /\ last'.code = 200
        /\ FieldsChanged(todos[last'.todoId], last'.body) # {})
       => LET todo == todos[last'.todoId]
              body == last'.body
          IN todos'[last'.todoId].activityLog =
                 Append(todo.activityLog,
                        Entry("updated", last'.userId,
                              [k \in FieldsChanged(todo, body) |->
                                  [old |-> todo[k], new |-> body[k]]]))]_vars

(***************************************************************************)
(* C5: a successful updateTodo whose body holds only values equal to the   *)
(* stored ones leaves the activityLog as it was.                           *)
(***************************************************************************)
C5_EqualValuesNotLogged ==
    [][(/\ last'.op = "updateTodo" /\ last'.code = 200
        /\ FieldsChanged(todos[last'.todoId], last'.body) = {})
       => todos'[last'.todoId].activityLog =
              todos[last'.todoId].activityLog]_vars

(***************************************************************************)
(* C6: the activityLog is append-only: in every step the log of every task *)
(* before the step is a prefix of its log after the step.                  *)
(***************************************************************************)
IsPrefix(s, t) == Len(s) <= Len(t) /\ SubSeq(t, 1, Len(s)) = s

ValidRequest ==
    /\ last'.op = "updateTodo" => validateTodo(last'.body)
    /\ last'.op = "shareTodo" =>
          (Has(last'.body, "permissions") =>
               last'.body.permissions \in validPermissions)

C7_DeletedIsNotFound ==
    [][(/\ last'.op \in {"updateTodo", "completeTodo", "incompleteTodo",
                         "shareTodo", "revokeTodoShare", "deleteTodo"}
        /\ ValidRequest
        /\ (Exists(last'.todoId) => todos[last'.todoId].isDeleted))
       => last'.code = 404]_vars

(***************************************************************************)
(* C8: a task that deleteTodo or bulkDeleteTodos has soft-deleted stays in *)
(* the collection with isDeleted = true, and no task with isDeleted = true *)
(* is matched by a listing (all, by status, by priority, by tag, overdue,  *)
(* today, archived, search, all-tags, stats) of any user.                  *)
(***************************************************************************)
ListQueries ==
    {NoBody} \cup {[status |-> st] : st \in validStatuses}
             \cup {[priority |-> pr] : pr \in validPriorities}
             \cup {[category |-> "general"]}

Listed(userId) ==
    UNION {getAllTodos(userId, q) : q \in ListQueries}
    \cup UNION {findByUserAndStatus(userId, st) : st \in validStatuses}
    \cup UNION {findByPriority(userId, pr) : pr \in validPriorities}
    \cup UNION {getTodosByTag(userId, tag) : tag \in {"xx"}}
    \cup UNION {findOverdue(userId, at) : at \in Times}
    \cup UNION {getTodayTodos(userId, DueDate, at) : at \in Times}
    \cup getArchivedTodos(userId)
    \cup UNION {searchTodos(userId, q) : q \in {"ab", "yz", "xx"}}
    \cup allTagsDocs(userId)
    \cup UNION {statsDocs(userId, at) : at \in Times}

C8_DeletedNeverListed ==
    /\ (last.op = "deleteTodo" /\ last.code = 200)
           => todos[last.todoId].isDeleted
    /\ (last.op = "bulkDeleteTodos" /\ last.code = 200)
           => \A i \in 1..Len(last.todoIds) : todos[last.todoIds[i]].isDeleted
    /\ \A t \in 1..Len(todos) :
           todos[t].isDeleted => \A u \in Users : t \notin Listed(u)

\* task 1 was deleted: it is overdue and tagged but listed nowhere, while
\* its owner's other task is listed
C8_Witness ==
    /\ last.op = "deleteTodo" /\ last.code = 200 /\ last.todoId = 1
    /\ Len(todos) = 2
    /\ todos[1].isDeleted /\ todos[1].dueDate = DueDate
    /\ ~todos[1].completed
    /\ Listed(todos[1].userId) = {2}

(***************************************************************************)
(* C11: a successful addSubtask without a parent id appends the new node   *)
(* (status todo, not completed, no children) at the end of the task's root *)
(* subtask sequence; with the id of a node of the tree as parent id it     *)
(* appends the new node to that node's subtask list, at any depth; the     *)
(* existing nodes and their order stay as they were.                       *)
(***************************************************************************)
\* the tree with `node` appended to the subtask list of the node `parentId`
RECURSIVE InsertUnder(_, _, _)
InsertUnder(tasks, parentId, node) ==
    IF Len(tasks) = 0 THEN <<>>
    ELSE <<[Head(tasks) EXCEPT
              !.subtasks = IF Head(tasks)._id = parentId
                           THEN Append(@, node)
                           ELSE InsertUnder(@, parentId, node)]>>
         \o InsertUnder(Tail(tasks), parentId, node)

C11_InsertAtParent ==
    [][(last'.op = "addSubtask" /\ Succeeded)
       => LET body == last'.body
              old == todos[last'.todoId].subtasks
              new == todos'[last'.todoId].subtasks
              node == SubTodo(last'.subtaskId, body.title,
                              OrStr(body, "description", ""),
                              OrStr(body, "priority", "medium"),
                              OrDate(body, "dueDate"), <<>>)
          IN /\ ~Has(body, "parentId") => new = Append(old, node)
             /\ (Has(body, "parentId") /\ body.parentId \in IdsOf(old))
                    => new = InsertUnder(old, body.parentId, node)]_vars

(***************************************************************************)
(* C12 as stated: a successful updateSubtask changes, on the matched node, *)
(* only the fields present in the patch, changes no other node, and        *)
(* touches completedAt exactly when completed goes from false to true;     *)
(* after create, one addSubtask and completing that subtask the progress   *)
(* is total = 1, completed = 1.                                            *)
(***************************************************************************)
PatchFields == {"title", "description", "status", "priority", "dueDate",
                "completed"}

\* a node's own fields, its children named by their ids
Own(node) ==
    [node EXCEPT !.subtasks = [i \in 1..Len(@) |-> @[i]._id]]

\* the nodes other than `id` are what they were, in the same places
OthersKept(old, new, id) ==
    /\ Len(Flatten(new)) = Len(Flatten(old))
    /\ \A i \in 1..Len(Flatten(old)) :
           /\ Flatten(new)[i]._id = Flatten(old)[i]._id
           /\ Flatten(old)[i]._id # id
                  => Own(Flatten(new)[i]) = Own(Flatten(old)[i])

\* on the node `id`, the fields the patch does not carry are what they were
OnlyPatched(old, new, id, body) ==
    \A i \in 1..Len(Flatten(old)) :
        Flatten(old)[i]._id = id =>
            /\ \A f \in PatchFields \ DOMAIN body :
                   Flatten(new)[i][f] = Flatten(old)[i][f]
            /\ Own(Flatten(new)[i]).subtasks = Own(Flatten(old)[i]).subtasks

UpdatedSubtask == last'.op = "updateSubtask" /\ last'.code = 200

FirstSubtaskCompleted ==
    (/\ NodeCount(todos[last'.todoId].subtasks) = 1
     /\ Has(last'.body, "completed") /\ last'.body.completed)
    => todos'[last'.todoId].checklistProgress = [total |-> 1, completed |-> 1]

C12_StampOnTransitionOnly ==
    [][UpdatedSubtask
       => LET old == todos[last'.todoId].subtasks
              new == todos'[last'.todoId].subtasks
              id == last'.subtaskId
          IN /\ OthersKept(old, new, id)
             /\ OnlyPatched(old, new, id, last'.body)
             /\ \A i \in 1..Len(Flatten(old)) :
                    Flatten(old)[i]._id = id =>
                        IF ~Flatten(old)[i].completed /\ Flatten(new)[i].completed
                        THEN Flatten(new)[i].completedAt = Now
                        ELSE Flatten(new)[i].completedAt
                                 = Flatten(old)[i].completedAt
             /\ FirstSubtaskCompleted]_vars

(***************************************************************************)
(* C12, amended: the same, except that completedAt is stamped whenever the *)
(* patch carries completed = true (also on a node that was completed       *)
(* already) and is left alone otherwise.                                   *)
(***************************************************************************)
C12_StampWheneverTrue ==
    [][UpdatedSubtask
       => LET old == todos[last'.todoId].subtasks
              new == todos'[last'.todoId].subtasks
              id == last'.subtaskId
              body == last'.body
          IN /\ OthersKept(old, new, id)
             /\ OnlyPatched(old, new, id, body)
             /\ \A i \in 1..Len(Flatten(old)) :
                    Flatten(old)[i]._id = id =>
                        /\ Flatten(new)[i].title = body.title
                        /\ Has(body, "completed") =>
                               Flatten(new)[i].completed = body.completed
                        /\ IF Has(body, "completed") /\ body.completed
                           THEN Flatten(new)[i].completedAt = Now
                           ELSE Flatten(new)[i].completedAt
                                    = Flatten(old)[i].completedAt
             /\ FirstSubtaskCompleted]_vars

\* a task's only subtask, added by addSubtask, was marked completed
C12_Witness ==
    /\ last.op = "updateSubtask" /\ last.code = 200 /\ last.subtaskId = 1
    /\ last.body.completed
    /\ IdsOf(todos[last.todoId].subtasks) = {1}
    /\ todos[last.todoId].subtasks[1].completed
    /\ todos[last.todoId].subtasks[1].completedAt = Now
    /\ todos[last.todoId].subtasks[1].status = "todo"
    /\ todos[last.todoId].checklistProgress = [total |-> 1, completed |-> 1]

(***************************************************************************)
(* Time tracking and archiving                                             *)
(***************************************************************************)
\* POST /api/todos/:todoId/time-tracking (the route installs no validator);
\* timeSpent is a number of minutes
logTimeSpent(userId, todoId, body) ==
    /\ LogRoom
    /\ IF ~Has(body, "timeSpent") \/ body.timeSpent = 0 \/ body.timeSpent <= 0
       THEN /\ Reply("logTimeSpent", userId, todoId, 0, <<>>, body, 400)
            /\ UNCHANGED <<todos, nextSubId>>
       ELSE IF ~Exists(todoId)
       THEN /\ Reply("logTimeSpent", userId, todoId, 0, <<>>, body, 404)
            /\ UNCHANGED <<todos, nextSubId>>
       ELSE IF ~IsOwner(todos[todoId], userId)
       THEN /\ Reply("logTimeSpent", userId, todoId, 0, <<>>, body, 403)
            /\ UNCHANGED <<todos, nextSubId>>
       ELSE LET todo == todos[todoId]
                doc == [todo EXCEPT
                          !.actualTime = @ + body.timeSpent,
                          !.activityLog = Append(@,
                              Entry("updated", userId,
                                    "timeLogged" :> body.timeSpent))]
            IN /\ todos' = [todos EXCEPT ![todoId] = save(todo, doc, FALSE)]
               /\ Reply("logTimeSpent", userId, todoId, 0, <<>>, body, 200)
               /\ UNCHANGED nextSubId

\* PATCH /api/todos/:todoId/archive
archiveTodo(userId, todoId) ==
    /\ LogRoom
    /\ IF ~Exists(todoId)
       THEN /\ Reply("archiveTodo", userId, todoId, 0, <<>>, NoBody, 404)
            /\ UNCHANGED <<todos, nextSubId>>
       ELSE IF ~IsOwner(todos[todoId], userId)
       THEN /\ Reply("archiveTodo", userId, todoId, 0, <<>>, NoBody, 403)
            /\ UNCHANGED <<todos, nextSubId>>
       ELSE LET todo == todos[todoId]
                doc == [todo EXCEPT !.isArchived = TRUE]
            IN /\ todos' = [todos EXCEPT ![todoId] = save(todo, doc, FALSE)]
               /\ Reply("archiveTodo", userId, todoId, 0, <<>>, NoBody, 200)
               /\ UNCHANGED nextSubId

\* PATCH /api/todos/:todoId/unarchive
unarchiveTodo(userId, todoId) ==
    /\ LogRoom
    /\ IF ~Exists(todoId)
       THEN /\ Reply("unarchiveTodo", userId, todoId, 0, <<>>, NoBody, 404)
            /\ UNCHANGED <<todos, nextSubId>>
       ELSE IF ~IsOwner(todos[todoId], userId)
       THEN /\ Reply("unarchiveTodo", userId, todoId, 0, <<>>, NoBody, 403)
            /\ UNCHANGED <<todos, nextSubId>>
       ELSE LET todo == todos[todoId]
                doc == [todo EXCEPT !.isArchived = FALSE]
            IN /\ todos' = [todos EXCEPT ![todoId] = save(todo, doc, FALSE)]
               /\ Reply("unarchiveTodo", userId, todoId, 0, <<>>, NoBody, 200)
               /\ UNCHANGED nextSubId

\* the requests of the time-tracking specification
TrackCreateBodies == {[title |-> "abc"]}
TrackTimeBodies ==
    {NoBody} \cup {[timeSpent |-> m] : m \in {0 - 5, 0, 30, 45, 1440, 1441}}

NextTrack ==
    \/ \E b \in TrackCreateBodies : createTodo("u1", b)
    \/ \E u \in Users, t \in 1..MaxTodos, b \in TrackTimeBodies :
           logTimeSpent(u, t, b)
    \/ \E u \in Users, t \in 1..MaxTodos : archiveTodo(u, t)
    \/ \E u \in Users, t \in 1..MaxTodos : unarchiveTodo(u, t)

SpecTrack == Init /\ [][NextTrack]_vars

(***************************************************************************)
(* C13: logTimeSpent by the owner of an existing task answers 400 and      *)
(* leaves actualTime and the activityLog as they were whenever the minutes *)
(* are <= 0 or greater than 1440 (the requests of the model carry whole    *)
(* numbers); it is accepted only for minutes in 1..1440.                   *)
(***************************************************************************)
C13_MinutesWithinDay ==
    [][(last'.op = "logTimeSpent" /\ Has(last'.body, "timeSpent") /\ ByOwner)
       => /\ last'.body.timeSpent \notin 1..1440
                => (last'.code = 400 /\ todos' = todos)
          /\ last'.code = 200 => last'.body.timeSpent \in 1..1440]_vars

(***************************************************************************)
(* C14: each accepted logTimeSpent adds its minutes to actualTime and      *)
(* appends exactly one `updated` entry to the activityLog (30 and then 45  *)
(* on a fresh task: actualTime = 75, two `updated` entries gained).        *)
(***************************************************************************)
C14_OneEntryPerLogTime ==
    [][(last'.op = "logTimeSpent" /\ last'.code = 200)
       => LET old == todos[last'.todoId]
              new == todos'[last'.todoId]
          IN /\ new.actualTime = old.actualTime + last'.body.timeSpent
             /\ Len(new.activityLog) = Len(old.activityLog) + 1
             /\ new.activityLog[Len(new.activityLog)].action = "updated"
             /\ SubSeq(new.activityLog, 1, Len(old.activityLog))
                    = old.activityLog]_vars

(***************************************************************************)
(* C16: a successful archiveTodo or unarchiveTodo changes only isArchived: *)
(* the task's activityLog (and every other field) is as before the call.   *)
(***************************************************************************)
C16_ArchiveNotLogged ==
    [][(last'.op \in {"archiveTodo", "unarchiveTodo"} /\ last'.code = 200)
       => /\ todos'[last'.todoId] =
                [todos[last'.todoId] EXCEPT
                    !.isArchived = (last'.op = "archiveTodo")]
          /\ todos'[last'.todoId].activityLog
                 = todos[last'.todoId].activityLog]_vars

(***************************************************************************)
(* C15: a successful completeTodo sets completed = true, status =          *)
(* 'completed' and completedAt, and appends one `completed` entry and no   *)
(* other; a successful incompleteTodo sets completed = false, status =     *)
(* 'todo', clears completedAt, and appends one `updated` entry and no      *)
(* other.                                                                  *)
(***************************************************************************)
Lifecycle(todo) ==
    [completed |-> todo.completed, status |-> todo.status,
     completedAt |-> todo.completedAt]

CompleteAsStated ==
    (last'.op = "completeTodo" /\ last'.code = 200)
    => /\ Lifecycle(todos'[last'.todoId]) =
              [completed |-> TRUE, status |-> "completed", completedAt |-> Now]
       /\ todos'[last'.todoId].activityLog =
              Append(todos[last'.todoId].activityLog,
                     Entry("completed", last'.userId, NoChanges))

IncompleteAsStated ==
    (last'.op = "incompleteTodo" /\ last'.code = 200)
    => /\ Lifecycle(todos'[last'.todoId]) =
              [completed |-> FALSE, status |-> "todo", completedAt |-> NullDate]
       /\ todos'[last'.todoId].activityLog =
              Append(todos[last'.todoId].activityLog,
                     Entry("updated", last'.userId, NoChanges))

C15_OneLifecycleEntry == [][CompleteAsStated /\ IncompleteAsStated]_vars

(***************************************************************************)
(* C17: a successful duplicateTodo adds one task whose activityLog is      *)
(* exactly one `created` entry, whose sharedWith is empty and whose        *)
(* subtask tree equals the original's, and leaves every stored task as it  *)
(* was; a later subtask request (add, update, delete) addressed to one     *)
(* task, the copy included, leaves every other task as it was.             *)
(***************************************************************************)
DuplicateMade ==
    (last'.op = "duplicateTodo" /\ last'.code = 201)
    => /\ Len(todos') = Len(todos) + 1
       /\ \A t \in 1..Len(todos) : todos'[t] = todos[t]
       /\ LET copy == todos'[Len(todos')]
              original == todos[last'.todoId]
          IN /\ copy.activityLog = <<Entry("created", last'.userId, NoChanges)>>
             /\ copy.sharedWith = <<>>
             /\ copy.subtasks = original.subtasks
             /\ copy.userId = last'.userId

SubtaskRequestsLocal ==
    last'.op \in {"addSubtask", "updateSubtask", "deleteSubtask"}
    => /\ Len(todos') = Len(todos)
       /\ \A t \in 1..Len(todos) : t # last'.todoId => todos'[t] = todos[t]

C17_DuplicateIndependent == [][DuplicateMade /\ SubtaskRequestsLocal]_vars

\* node 12 and its child were deleted from the copy of a four-node tree; the
\* original still has its four nodes
C17_Witness ==
    /\ last.op = "deleteSubtask" /\ last.code = 200 /\ last.todoId = 2
    /\ Len(todos) = 2 /\ todos[2].title = "copy"
    /\ Len(todos[2].activityLog) = 2
    /\ todos[2].activityLog[1].action = "created"
    /\ IdsOf(todos[1].subtasks) = ClientIds
    /\ IdsOf(todos[2].subtasks) = {11, 14}

(***************************************************************************)
(* The sharing and ownership specification                                 *)
(***************************************************************************)
\* "u9" is an id that no User document carries
ShareCreateBodies == {[title |-> "abc"]}
ShareBodies ==
    {NoBody,
     [userId |-> "u2"],
     [userId |-> "u2", permissions |-> "edit"],
     [userId |-> "u1", permissions |-> "admin"],
     [userId |-> "u2", permissions |-> "owner"],
     [userId |-> "u9"]}
ShareBulkUpdates == {[userId |-> "u2"]}
ShareBulkIds == {<<1>>}

NextShare ==
    \/ \E b \in ShareCreateBodies : createTodo("u1", b)
    \/ \E u \in Users, t \in 1..MaxTodos, b \in ShareBodies : shareTodo(u, t, b)
    \/ \E u \in Users, t \in 1..MaxTodos, w \in Users :
           revokeTodoShare(u, t, w)
    \/ \E ids \in ShareBulkIds, up \in ShareBulkUpdates :
           bulkUpdateTodos("u1", ids, up)

SpecShare == Init /\ [][NextShare]_vars

(***************************************************************************)
(* C18: after any sequence of shareTodo and revokeTodoShare calls each     *)
(* user id appears at most once in a task's sharedWith; a shareTodo by the *)
(* owner for a user already present answers 400 and leaves the collection  *)
(* as it was; a successful shareTodo appends one entry for the user, with  *)
(* the permission given or `view` when none is given.                      *)
(***************************************************************************)
SharedOnce(todo) ==
    \A i, j \in 1..Len(todo.sharedWith) :
        todo.sharedWith[i].userId = todo.sharedWith[j].userId => i = j

C18_SharedAtMostOnce ==
    [][/\ \A t \in 1..Len(todos') : SharedOnce(todos'[t])
       /\ (/\ last'.op = "shareTodo" /\ ByOwner
           /\ Has(last'.body, "userId")
           /\ Grants(todos[last'.todoId], last'.body.userId, validPermissions))
              => (last'.code = 400 /\ todos' = todos)
       /\ (last'.op = "shareTodo" /\ last'.code = 200)
              => todos'[last'.todoId].sharedWith =
                     Append(todos[last'.todoId].sharedWith,
                            [userId |-> last'.body.userId,
                             permissions |->
                                 IF Has(last'.body, "permissions")
                                 THEN last'.body.permissions ELSE "view"])
       /\ (last'.op = "revokeTodoShare" /\ last'.code = 200)
              => ~Grants(todos'[last'.todoId], last'.body.userId,
                         validPermissions)]_vars

\* u2, shared without a permission and stored as view, is shared again (edit)
\* and refused
C18_Witness ==
    /\ last.op = "shareTodo" /\ last.code = 400
    /\ last.body = [userId |-> "u2", permissions |-> "edit"]
    /\ Exists(last.todoId)
    /\ todos[last.todoId].userId = last.userId
    /\ \E i \in 1..Len(todos[last.todoId].sharedWith) :
           todos[last.todoId].sharedWith[i] =
               [userId |-> "u2", permissions |-> "view"]

(***************************************************************************)
(* C19: in every reachable state no entry of a task's sharedWith carries   *)
(* the id of the task's owner.                                             *)
(***************************************************************************)
C19_OwnerNotShared ==
    \A t \in 1..Len(todos) :
        \A i \in 1..Len(todos[t].sharedWith) :
            todos[t].sharedWith[i].userId # todos[t].userId

(***************************************************************************)
(* C20: no step changes the userId of a stored task.                       *)
(***************************************************************************)
C20_OwnerImmutable ==
    [][\A t \in 1..Len(todos) :
           t <= Len(todos') /\ todos'[t].userId = todos[t].userId]_vars

(***************************************************************************)
(* The bulk-update specification: two owners, mixed batches                *)
(***************************************************************************)
BulkCreateBodies == {[title |-> "abc"]}
BulkUpdates == {NoBody, [priority |-> "high"]}
BulkIds == {<<>>, <<1>>, <<1, 2>>, <<2, 1>>, <<1, 9>>}

NextBulk ==
    \/ \E u \in Users, b \in BulkCreateBodies : createTodo(u, b)
    \/ \E u \in Users, ids \in BulkIds, up \in BulkUpdates :
           bulkUpdateTodos(u, ids, up)
    \/ \E u \in Users, t \in 1..MaxTodos : deleteTodo(u, t)

SpecBulk == Init /\ [][NextBulk]_vars

(***************************************************************************)
(* C21: a bulkUpdateTodos with ids and updates in which at least one       *)
(* requested id is not a task owned by the caller answers 403 and leaves   *)
(* every stored task, owned or not, as it was; when every id is a task of  *)
(* the caller each of them takes the update.                               *)
(***************************************************************************)
OwnedBy(userId, t) == t \in 1..Len(todos) /\ todos[t].userId = userId

BulkAsked ==
    /\ last'.op = "bulkUpdateTodos"
    /\ Len(last'.todoIds) > 0 /\ DOMAIN last'.body # {}

C21_BulkAllOrNothing ==
    [][BulkAsked
       => IF \E i \in 1..Len(last'.todoIds) :
                 ~OwnedBy(last'.userId, last'.todoIds[i])
          THEN last'.code = 403 /\ todos' = todos
          ELSE last'.code = 200
               /\ \A i \in 1..Len(last'.todoIds) :
                      todos'[last'.todoIds[i]].priority = last'.body.priority]_vars

\* a batch of two, the caller's own task and another user's: refused
C21_Witness ==
    /\ last.op = "bulkUpdateTodos" /\ last.code = 403
    /\ Len(last.todoIds) = 2 /\ DOMAIN last.body # {}
    /\ \E i, j \in 1..2 :
           /\ OwnedBy(last.userId, last.todoIds[i])
           /\ last.todoIds[j] \in 1..Len(todos)
           /\ ~OwnedBy(last.userId, last.todoIds[j])
    /\ \A t \in 1..Len(todos) : todos[t].priority = "medium"

(***************************************************************************)
(* Assignment, comments and watchers                                       *)
(***************************************************************************)
\* PATCH /api/todos/:todoId/assign
assignTodo(userId, todoId, body) ==
    /\ LogRoom
    /\ IF ~(Has(body, "assigneeId") /\ body.assigneeId # "")
       THEN /\ Reply("assignTodo", userId, todoId, 0, <<>>, body, 400)
            /\ UNCHANGED <<todos, nextSubId>>
       ELSE IF ~Exists(todoId)
       THEN /\ Reply("assignTodo", userId, todoId, 0, <<>>, body, 404)
            /\ UNCHANGED <<todos, nextSubId>>
       ELSE IF ~IsOwner(todos[todoId], userId)
       THEN /\ Reply("assignTodo", userId, todoId, 0, <<>>, body, 403)
            /\ UNCHANGED <<todos, nextSubId>>
       ELSE IF ~UserExists(body.assigneeId)
       THEN /\ Reply("assignTodo", userId, todoId, 0, <<>>, body, 404)
            /\ UNCHANGED <<todos, nextSubId>>
       ELSE LET todo == todos[todoId]
                doc == [todo EXCEPT
                          !.assignee = body.assigneeId,
                          !.activityLog = Append(@,
                              Entry("assigned", userId,
                                    [from |-> todo.assignee,
                                     to |-> body.assigneeId]))]
            IN /\ todos' = [todos EXCEPT ![todoId] = save(todo, doc, FALSE)]
               /\ Reply("assignTodo", userId, todoId, 0, <<>>, body, 200)
               /\ UNCHANGED nextSubId

\* PATCH /api/todos/:todoId/unassign
unassignTodo(userId, todoId) ==
    /\ LogRoom
    /\ IF ~Exists(todoId)
       THEN /\ Reply("unassignTodo", userId, todoId, 0, <<>>, NoBody, 404)
            /\ UNCHANGED <<todos, nextSubId>>
       ELSE IF ~IsOwner(todos[todoId], userId)
       THEN /\ Reply("unassignTodo", userId, todoId, 0, <<>>, NoBody, 403)
            /\ UNCHANGED <<todos, nextSubId>>
       ELSE LET todo == todos[todoId]
                doc == [todo EXCEPT
                          !.assignee = Null,
                          !.activityLog = Append(@,
                              Entry("updated", userId,
                                    "assignee" :> "unassigned"))]
            IN /\ todos' = [todos EXCEPT ![todoId] = save(todo, doc, FALSE)]
               /\ Reply("unassignTodo", userId, todoId, 0, <<>>, NoBody, 200)
               /\ UNCHANGED nextSubId

\* POST /api/todos/:todoId/comments; the comment's _id is generated
addComment(userId, todoId, body) ==
    /\ LogRoom
    /\ nextSubId <= MaxSubtasks
    /\ IF ~(Has(body, "text") /\ body.text # "")
       THEN /\ Reply("addComment", userId, todoId, 0, <<>>, body, 400)
            /\ UNCHANGED <<todos, nextSubId>>
       ELSE IF ~Exists(todoId)
       THEN /\ Reply("addComment", userId, todoId, 0, <<>>, body, 404)
            /\ UNCHANGED <<todos, nextSubId>>
       ELSE IF ~IsOwner(todos[todoId], userId) /\ ~IsSharedWith(todos[todoId], userId)
       THEN /\ Reply("addComment", userId, todoId, 0, <<>>, body, 403)
            /\ UNCHANGED <<todos, nextSubId>>
       ELSE LET todo == todos[todoId]
                newComment == [_id |-> nextSubId, userId |-> userId,
                               text |-> body.text, updatedAt |-> NullDate]
                doc == [todo EXCEPT
                          !.comments = Append(@, newComment),
                          !.activityLog = Append(@,
                              Entry("commented", userId, NoChanges))]
            IN /\ todos' = [todos EXCEPT ![todoId] = save(todo, doc, FALSE)]
               /\ nextSubId' = nextSubId + 1
               /\ Reply("addComment", userId, todoId, nextSubId, <<>>, body, 201)

\* todo.comments.find(c => c._id.toString() === commentId): its index, or 0
FindComment(todo, commentId) ==
    IF \E i \in 1..Len(todo.comments) : todo.comments[i]._id = commentId
    THEN CHOOSE i \in 1..Len(todo.comments) :
             /\ todo.comments[i]._id = commentId
             /\ \A j \in 1..(i - 1) : todo.comments[j]._id # commentId
    ELSE 0

\* PATCH /api/todos/:todoId/comments/:commentId
updateComment(userId, todoId, commentId, body) ==
    /\ LogRoom
    /\ IF ~(Has(body, "text") /\ body.text # "")
       THEN /\ Reply("updateComment", userId, todoId, commentId, <<>>, body, 400)
            /\ UNCHANGED <<todos, nextSubId>>
       ELSE IF ~Exists(todoId)
       THEN /\ Reply("updateComment", userId, todoId, commentId, <<>>, body, 404)
            /\ UNCHANGED <<todos, nextSubId>>
       ELSE IF ~IsOwner(todos[todoId], userId)
       THEN /\ Reply("updateComment", userId, todoId, commentId, <<>>, body, 403)
            /\ UNCHANGED <<todos, nextSubId>>
       ELSE IF FindComment(todos[todoId], commentId) = 0
       THEN /\ Reply("updateComment", userId, todoId, commentId, <<>>, body, 404)
            /\ UNCHANGED <<todos, nextSubId>>
       ELSE IF todos[todoId].comments[FindComment(todos[todoId], commentId)].userId # userId
       THEN /\ Reply("updateComment", userId, todoId, commentId, <<>>, body, 403)
            /\ UNCHANGED <<todos, nextSubId>>
       ELSE LET todo == todos[todoId]
                i == FindComment(todo, commentId)
                doc == [todo EXCEPT !.comments[i].text = body.text,
                                    !.comments[i].updatedAt = Now]
            IN /\ todos' = [todos EXCEPT ![todoId] = save(todo, doc, TRUE)]
               /\ Reply("updateComment", userId, todoId, commentId, <<>>, body, 200)
               /\ UNCHANGED nextSubId

\* DELETE /api/todos/:todoId/comments/:commentId
deleteComment(userId, todoId, commentId) ==
    /\ LogRoom
    /\ IF ~Exists(todoId)
       THEN /\ Reply("deleteComment", userId, todoId, commentId, <<>>, NoBody, 404)
            /\ UNCHANGED <<todos, nextSubId>>
       ELSE IF ~IsOwner(todos[todoId], userId)
       THEN /\ Reply("deleteComment", userId, todoId, commentId, <<>>, NoBody, 403)
            /\ UNCHANGED <<todos, nextSubId>>
       ELSE IF FindComment(todos[todoId], commentId) = 0
       THEN /\ Reply("deleteComment", userId, todoId, commentId, <<>>, NoBody, 404)
            /\ UNCHANGED <<todos, nextSubId>>
       ELSE IF todos[todoId].comments[FindComment(todos[todoId], commentId)].userId # userId
       THEN /\ Reply("deleteComment", userId, todoId, commentId, <<>>, NoBody, 403)
            /\ UNCHANGED <<todos, nextSubId>>
       ELSE LET todo == todos[todoId]
                keep(c) == c._id # commentId
                doc == [todo EXCEPT !.comments = SelectSeq(@, keep)]
            IN /\ todos' = [todos EXCEPT ![todoId] = save(todo, doc, FALSE)]
               /\ Reply("deleteComment", userId, todoId, commentId, <<>>, NoBody, 200)
               /\ UNCHANGED nextSubId

\* POST /api/todos/:todoId/watchers
addWatcher(userId, todoId, body) ==
    /\ LogRoom
    /\ IF ~(Has(body, "watcherId") /\ body.watcherId # "")
       THEN /\ Reply("addWatcher", userId, todoId, 0, <<>>, body, 400)
            /\ UNCHANGED <<todos, nextSubId>>
       ELSE IF ~Exists(todoId)
       THEN /\ Reply("addWatcher", userId, todoId, 0, <<>>, body, 404)
            /\ UNCHANGED <<todos, nextSubId>>
       ELSE IF ~IsOwner(todos[todoId], userId) /\ ~IsSharedWith(todos[todoId], userId)
       THEN /\ Reply("addWatcher", userId, todoId, 0, <<>>, body, 403)
            /\ UNCHANGED <<todos, nextSubId>>
       ELSE IF ~UserExists(body.watcherId)
       THEN /\ Reply("addWatcher", userId, todoId, 0, <<>>, body, 404)
            /\ UNCHANGED <<todos, nextSubId>>
       ELSE IF \E i \in 1..Len(todos[todoId].watchers) :
                   todos[todoId].watchers[i] = body.watcherId
       THEN /\ Reply("addWatcher", userId, todoId, 0, <<>>, body, 400)
            /\ UNCHANGED <<todos, nextSubId>>
       ELSE LET todo == todos[todoId]
                doc == [todo EXCEPT !.watchers = Append(@, body.watcherId)]
            IN /\ todos' = [todos EXCEPT ![todoId] = save(todo, doc, FALSE)]
               /\ Reply("addWatcher", userId, todoId, 0, <<>>, body, 200)
               /\ UNCHANGED nextSubId

(***************************************************************************)
(* The owner-only specification: the owner shares, both users ask          *)
(***************************************************************************)
OwnerCreateBodies == {[title |-> "abc"]}
OwnerShareBodies ==
    {[userId |-> "u2", permissions |-> p] : p \in validPermissions}
OwnerSubtaskBodies == {[title |-> "sub"]}
OwnerAssignBodies == {[assigneeId |-> "u2"]}

NextOwner ==
    \/ \E b \in OwnerCreateBodies : createTodo("u1", b)
    \/ \E t \in 1..MaxTodos, b \in OwnerShareBodies : shareTodo("u1", t, b)
    \/ \E t \in 1..MaxTodos, b \in OwnerSubtaskBodies : addSubtask("u1", t, b)
    \/ \E u \in Users, t \in 1..MaxTodos : deleteTodo(u, t)
    \/ \E u \in Users, t \in 1..MaxTodos, s \in 1..MaxSubtasks :
           deleteSubtask(u, t, s)
    \/ \E u \in Users, t \in 1..MaxTodos, b \in OwnerAssignBodies :
           assignTodo(u, t, b)
    \/ \E u \in Users, t \in 1..MaxTodos : unassignTodo(u, t)
    \/ \E u \in Users, t \in 1..MaxTodos : archiveTodo(u, t)
    \/ \E u \in Users, t \in 1..MaxTodos : unarchiveTodo(u, t)

SpecOwner == Init /\ [][NextOwner]_vars

(***************************************************************************)
(* C22: deleteTodo, deleteSubtask, assignTodo, unassignTodo, archiveTodo   *)
(* and unarchiveTodo asked on an existing task by a user who is not its    *)
(* owner answer 403 and leave the collection as it was, whatever the       *)
(* user's entry in sharedWith grants.                                      *)
(***************************************************************************)
OwnerOnlyOps == {"deleteTodo", "deleteSubtask", "assignTodo", "unassignTodo",
                 "archiveTodo", "unarchiveTodo"}

C22_OwnerOnly ==
    [][(/\ last'.op \in OwnerOnlyOps
        /\ Exists(last'.todoId)
        /\ todos[last'.todoId].userId # last'.userId
        /\ last'.op = "assignTodo" => Has(last'.body, "assigneeId"))
       => (last'.code = 403 /\ todos' = todos)]_vars

\* u2 holds an admin share and asks to delete a subtask that exists: refused
C22_Witness ==
    /\ last.op = "deleteSubtask" /\ last.code = 403 /\ last.userId = "u2"
    /\ Exists(last.todoId)
    /\ Grants(todos[last.todoId], "u2", {"admin"})
    /\ last.subtaskId \in IdsOf(todos[last.todoId].subtasks)

(***************************************************************************)
(* The collaboration specification: a shared user works on the task        *)
(***************************************************************************)
CollabCreateBodies == {[title |-> "abc"]}
CollabShareBodies ==
    {[userId |-> "u2"], [userId |-> "u2", permissions |-> "edit"]}
CollabSubtaskBodies == {[title |-> "sub"]}
CollabCommentBodies == {[text |-> "abc"], [text |-> "xyz"]}
CollabWatcherBodies == {[watcherId |-> "u2"]}

NextCollab ==
    \/ \E b \in CollabCreateBodies : createTodo("u1", b)
    \/ \E t \in 1..MaxTodos, b \in CollabShareBodies : shareTodo("u1", t, b)
    \/ \E u \in Users, t \in 1..MaxTodos, b \in CollabSubtaskBodies :
           addSubtask(u, t, b)
    \/ \E u \in Users, t \in 1..MaxTodos, b \in CollabCommentBodies :
           addComment(u, t, b)
    \/ \E u \in Users, t \in 1..MaxTodos, c \in 1..MaxSubtasks,
          b \in CollabCommentBodies : updateComment(u, t, c, b)
    \/ \E u \in Users, t \in 1..MaxTodos, c \in 1..MaxSubtasks :
           deleteComment(u, t, c)
    \/ \E u \in Users, t \in 1..MaxTodos, b \in CollabWatcherBodies :
           addWatcher(u, t, b)

SpecCollab == Init /\ [][NextCollab]_vars

(***************************************************************************)
(* C23: for a comment written by a user the task is shared with,           *)
(* updateComment (with a text) and deleteComment succeed when asked by the *)
(* comment's author and answer 403 when asked by anyone else, the task's   *)
(* owner included.                                                         *)
(***************************************************************************)
C23_CommentByAuthor ==
    [][(/\ last'.op \in {"updateComment", "deleteComment"}
        /\ last'.op = "updateComment" => Has(last'.body, "text")
        /\ Exists(last'.todoId)
        /\ FindComment(todos[last'.todoId], last'.subtaskId) # 0)
       => LET todo == todos[last'.todoId]
              comment == todo.comments[FindComment(todo, last'.subtaskId)]
          IN comment.userId # todo.userId
                 => IF last'.userId = comment.userId
                    THEN last'.code = 200
                    ELSE last'.code = 403]_vars

(***************************************************************************)
(* C27: addSubtask asked by a user who is not the owner and whose          *)
(* sharedWith entry grants only `view` answers 403 and leaves the tree as  *)
(* it was.                                                                 *)
(***************************************************************************)
C27_ViewCannotAddSubtask ==
    [][(/\ last'.op = "addSubtask"
        /\ validateSubtask(last'.body)
        /\ Exists(last'.todoId)
        /\ todos[last'.todoId].userId # last'.userId
        /\ Grants(todos[last'.todoId], last'.userId, {"view"}))
       => (last'.code = 403 /\ todos' = todos)]_vars

(***************************************************************************)
(* C28: every activity entry appended by a successful request carries the  *)
(* id of the user who made the request.                                    *)
(***************************************************************************)
C28_EntriesNameTheActor ==
    [][(Succeeded /\ Exists(last'.todoId))
       => LET old == todos[last'.todoId].activityLog
              new == todos'[last'.todoId].activityLog
          IN \A i \in (Len(old) + 1)..Len(new) :
                 new[i].userId = last'.userId]_vars

(***************************************************************************)
(* C24: a request answered with a validation error (400), a not-found      *)
(* error (404), a forbidden error (403) or a conflict (409) leaves the     *)
(* stored state of every task exactly as it was before the request.        *)
(***************************************************************************)
ErrorCodes == {400, 403, 404, 409}

Rejected == last.code \in ErrorCodes

C24_ErrorsWriteNothing ==
    [][last'.code \in ErrorCodes => todos' = todos]_vars

\* the owner shares a task again with a user who already holds a grant
C24_Witness ==
    /\ last.op = "shareTodo"
    /\ Rejected
    /\ Exists(last.todoId)
    /\ IsOwner(todos[last.todoId], last.userId)
    /\ IsSharedWith(todos[last.todoId], last.body.userId)

(***************************************************************************)
(* Requests in flight.  A handler runs to its next await without           *)
(* interruption; between `await Todo.findById` and `await todo.save()`     *)
(* other handlers run.  A suspended handler keeps `doc`, its document in   *)
(* memory, and `base`, the document as the database gave it or as its last *)
(* save left it, against which Mongoose computes what a save writes.       *)
(***************************************************************************)
Free(r) == requests[r].pc = "idle"

Suspend(r, pc, op, userId, todoId, subtaskId, body, base, doc, touched) ==
    requests' = [requests EXCEPT ![r] =
                    [pc |-> pc, op |-> op, userId |-> userId,
                     todoId |-> todoId, subtaskId |-> subtaskId,
                     body |-> body, base |-> base, doc |-> doc,
                     touched |-> touched]]

\* the arrays these handlers only push to: a save sends the pushed elements
PushedPaths == {"subtasks", "activityLog"}

Pushed(base, doc) == SubSeq(doc, Len(base) + 1, Len(doc))

\* a save that replaces the stored document by the one in memory
writeWhole(stored, base, doc, touched) == doc

\* the update doc.save() sends for a loaded document: $push of the elements
\* pushed since `base`, $set of the other paths that differ from `base` or
\* were assigned a fresh value; the paths it does not name keep what is stored
write(stored, base, doc, touched) ==
    [p \in DOMAIN stored |->
        IF p \in PushedPaths THEN stored[p] \o Pushed(base[p], doc[p])
        ELSE IF p \in touched \/ doc[p] # base[p] THEN doc[p]
        ELSE stored[p]]

\* the document in memory after the pre('save') hooks of a save ran
InMemory(q) == save(q.base, q.doc, q.touched # {})

\* POST /api/todos/:todoId/time-tracking up to `await todo.save()`
logTimeSpentFind(r, userId, todoId, body) ==
    /\ Free(r)
    /\ LogRoom
    /\ UNCHANGED <<todos, nextSubId, refreshTokens, loginAttempts, limiter,
                   now, history>>
    /\ IF ~Has(body, "timeSpent") \/ body.timeSpent = 0 \/ body.timeSpent <= 0
       THEN /\ Respond("logTimeSpent", userId, todoId, 0, <<>>, body, 400)
            /\ UNCHANGED requests
       ELSE IF ~Exists(todoId)
       THEN /\ Respond("logTimeSpent", userId, todoId, 0, <<>>, body, 404)
            /\ UNCHANGED requests
       ELSE IF ~IsOwner(todos[todoId], userId)
       THEN /\ Respond("logTimeSpent", userId, todoId, 0, <<>>, body, 403)
            /\ UNCHANGED requests
       ELSE LET todo == todos[todoId]
                doc == [todo EXCEPT
                          !.actualTime = @ + body.timeSpent,
                          !.activityLog = Append(@,
                              Entry("updated", userId,
                                    "timeLogged" :> body.timeSpent))]
            IN /\ Suspend(r, "save", "logTimeSpent", userId, todoId, 0, body,
                          todo, doc, {})
               /\ UNCHANGED last

\* POST /api/todos/:todoId/subtasks up to `await todo.save()`
addSubtaskFind(r, userId, todoId, body) ==
    /\ Free(r)
    /\ LogRoom
    /\ nextSubId <= MaxSubtasks
    /\ UNCHANGED <<todos, refreshTokens, loginAttempts, limiter, now, history>>
    /\ IF ~validateSubtask(body)
       THEN /\ Respond("addSubtask", userId, todoId, 0, <<>>, body, 400)
            /\ UNCHANGED <<requests, nextSubId>>
       ELSE IF ~Exists(todoId)
       THEN /\ Respond("addSubtask", userId, todoId, 0, <<>>, body, 404)
            /\ UNCHANGED <<requests, nextSubId>>
       ELSE IF ~IsOwner(todos[todoId], userId) /\ ~IsSharedWith(todos[todoId], userId)
       THEN /\ Respond("addSubtask", userId, todoId, 0, <<>>, body, 403)
            /\ UNCHANGED <<requests, nextSubId>>
       ELSE LET todo == todos[todoId]
                newSubtask == SubTodo(nextSubId, body.title,
                                      OrStr(body, "description", ""),
                                      OrStr(body, "priority", "medium"),
                                      OrDate(body, "dueDate"), <<>>)
                doc == [todo EXCEPT
                          !.subtasks = Append(@, newSubtask),
                          !.activityLog = Append(@,
                              Entry("updated", userId, "added" :> "subtask"))]
            IN /\ Suspend(r, "save", "addSubtask", userId, todoId, nextSubId,
                          body, todo, doc, {})
               /\ nextSubId' = nextSubId + 1
               /\ UNCHANGED last

\* PATCH /api/todos/:todoId/complete up to the save inside todo.complete()
completeTodoFind(r, userId, todoId) ==
    /\ Free(r)
    /\ LogRoom
    /\ UNCHANGED <<todos, nextSubId, refreshTokens, loginAttempts, limiter,
                   now, history>>
    /\ IF ~Exists(todoId)
       THEN /\ Respond("completeTodo", userId, todoId, 0, <<>>, NoBody, 404)
            /\ UNCHANGED requests
       ELSE IF ~IsOwner(todos[todoId], userId)
       THEN /\ Respond("completeTodo", userId, todoId, 0, <<>>, NoBody, 403)
            /\ UNCHANGED requests
       ELSE LET todo == todos[todoId]
                doc == [todo EXCEPT !.completed = TRUE,
                                    !.status = "completed",
                                    !.completedAt = Now]
            IN /\ Suspend(r, "complete", "completeTodo", userId, todoId, 0,
                          NoBody, todo, doc, {"completedAt"})
               /\ UNCHANGED last

\* the save of `await todo.complete()` reaches the database; the handler
\* goes on to push its `completed` entry and calls todo.save()
todoComplete(r) ==
    LET q == requests[r]
        m == InMemory(q)
    IN /\ q.pc = "complete"
       /\ todos' = [todos EXCEPT ![q.todoId] = write(@, q.base, m, q.touched)]
       /\ Suspend(r, "save", q.op, q.userId, q.todoId, q.subtaskId, q.body,
                  m, [m EXCEPT !.activityLog =
                         Append(@, Entry("completed", q.userId, NoChanges))],
                  {})
       /\ UNCHANGED <<nextSubId, last, refreshTokens, loginAttempts, limiter,
                      now, history>>

\* `await todo.save()` reaches the database and the handler responds
todoSave(r) ==
    LET q == requests[r]
        m == InMemory(q)
    IN /\ q.pc = "save"
       /\ todos' = [todos EXCEPT ![q.todoId] = write(@, q.base, m, q.touched)]
       /\ requests' = [requests EXCEPT ![r] = Idle]
       /\ Respond(q.op, q.userId, q.todoId, q.subtaskId, <<>>, q.body,
                  IF q.op = "addSubtask" THEN 201 ELSE 200)
       /\ UNCHANGED <<nextSubId, refreshTokens, loginAttempts, limiter, now,
                      history>>

RaceCreateBodies == {[title |-> "abc"]}
RaceTimeBodies == {[timeSpent |-> 30], [timeSpent |-> 45]}
RaceSubtaskBodies == {[title |-> "sub"]}

NextRace ==
    \/ \E b \in RaceCreateBodies : createTodo("u1", b)
    \/ \E r \in Slots, t \in 1..MaxTodos, b \in RaceTimeBodies :
           logTimeSpentFind(r, "u1", t, b)
    \/ \E r \in Slots, t \in 1..MaxTodos, b \in RaceSubtaskBodies :
           addSubtaskFind(r, "u1", t, b)
    \/ \E r \in Slots, t \in 1..MaxTodos : completeTodoFind(r, "u1", t)
    \/ \E r \in Slots : todoComplete(r)
    \/ \E r \in Slots : todoSave(r)

SpecRace == Init /\ [][NextRace]_vars

(***************************************************************************)
(* C25: no stored state holds only a part of an operation's effect; in     *)
(* particular no task is stored as completed by completeTodo without that  *)
(* call's `completed` activity entry.                                      *)
(***************************************************************************)
HasEntry(todo, action) ==
    \E i \in 1..Len(todo.activityLog) : todo.activityLog[i].action = action

C25_CompletedWithItsEntry ==
    \A t \in 1..Len(todos) :
        todos[t].completed => HasEntry(todos[t], "completed")

(***************************************************************************)
(* C26 as stated: when a mutation persists a document it loaded before     *)
(* another mutation of the same task persisted, the stored task becomes    *)
(* the persisting request's document as a whole, so that the earlier       *)
(* mutation's changes are gone, also those to other fields.  Stated for an *)
(* addSubtask that persists last: whatever the earlier mutation was, it    *)
(* changed other fields than the subtasks.                                 *)
(***************************************************************************)
\* r's save reaches the database in this step
Persists(r) == requests[r].pc = "save" /\ requests'[r].pc = "idle"

\* the task r works on was written since r loaded it
Raced(r) == todos[requests[r].todoId] # requests[r].base

TimeLogged(todo, minutes) ==
    \E i \in 1..Len(todo.activityLog) :
        /\ Has(todo.activityLog[i].changes, "timeLogged")
        /\ todo.activityLog[i].changes.timeLogged = minutes

Tick ==
    /\ now < MaxNow
    /\ now' = now + 1
    /\ UNCHANGED <<todos, nextSubId, last, requests, refreshTokens,
                   loginAttempts, limiter, history>>

\* generateRefreshToken({id}): jwt.sign of the payload {id, iat, exp} with
\* the server's secret; iat is the time of signing, so two tokens signed for
\* one user at the same time are the same string
generateRefreshToken(id) == [id |-> id, iat |-> now, signed |-> TRUE]

\* a token the server did not sign
Forged == [id |-> "u1", iat |-> 0, signed |-> FALSE]

\* verifyRefreshToken(token) does not throw
verifyRefreshToken(token) == token.signed

\* this.refreshTokens.filter(rt => rt.token !== token)
RECURSIVE Without(_, _)
Without(tokens, token) ==
    IF tokens = <<>> THEN <<>>
    ELSE IF Head(tokens) = token THEN Without(Tail(tokens), token)
    ELSE <<Head(tokens)>> \o Without(Tail(tokens), token)

\* user.refreshTokens.some(rt => rt.token === refreshToken)
tokenExists(tokens, token) == \E i \in 1..Len(tokens) : tokens[i] = token

\* the number of refresh tokens addRefreshToken keeps
KeepTokens == 5

\* this.refreshTokens.slice(-5)
LastTokens(tokens) ==
    IF Len(tokens) > KeepTokens
    THEN SubSeq(tokens, Len(tokens) - KeepTokens + 1, Len(tokens))
    ELSE tokens

\* userSchema.methods.addRefreshToken on the array in memory
addRefreshToken(tokens, token) == LastTokens(Append(tokens, token))

\* GET /api/auth/google/callback for a user that exists: a refresh token is
\* generated and stored
handleGoogleCallback(u) ==
    /\ Len(history) < MaxHistory
    /\ refreshTokens' = [refreshTokens EXCEPT ![u] =
                            addRefreshToken(@, generateRefreshToken(u))]
    /\ history' = Append(history, [op |-> "handleGoogleCallback",
                                   by |-> generateRefreshToken(u), at |-> now])
    /\ Respond("handleGoogleCallback", u, 0, 0, <<>>, NoBody, 302)
    /\ UNCHANGED <<todos, nextSubId, requests, loginAttempts, limiter, now>>

\* POST /api/auth/refresh up to the save inside user.removeRefreshToken()
refreshAccessTokenFind(r, body) ==
    /\ Free(r)
    /\ Len(history) < MaxHistory
    /\ UNCHANGED <<todos, nextSubId, refreshTokens, loginAttempts, limiter,
                   now, history>>
    /\ IF ~Has(body, "refreshToken")
       THEN /\ Respond("refreshAccessToken", "none", 0, 0, <<>>, body, 400)
            /\ UNCHANGED requests
       ELSE IF ~verifyRefreshToken(body.refreshToken)
       THEN /\ Respond("refreshAccessToken", "none", 0, 0, <<>>, body, 401)
            /\ UNCHANGED requests
       ELSE IF ~UserExists(body.refreshToken.id)
       THEN /\ Respond("refreshAccessToken", body.refreshToken.id, 0, 0, <<>>,
                       body, 404)
            /\ UNCHANGED requests
       ELSE IF ~tokenExists(refreshTokens[body.refreshToken.id], body.refreshToken)
       THEN /\ Respond("refreshAccessToken", body.refreshToken.id, 0, 0, <<>>,
                       body, 401)
            /\ UNCHANGED requests
       ELSE LET id == body.refreshToken.id
                user == refreshTokens[id]
            IN /\ requests' = [requests EXCEPT ![r] =
                      [pc |-> "remove", op |-> "refreshAccessToken",
                       userId |-> id, body |-> body,
                       tokens |-> generateRefreshToken(id),
                       base |-> user,
                       doc |-> Without(user, body.refreshToken)]]
               /\ UNCHANGED last

\* the save of `await user.removeRefreshToken()` reaches the database: the
\* array was assigned, so it is written whole; the handler goes on to
\* user.addRefreshToken(), which pushes, slices when more than 5 are held,
\* and saves
userRemoveRefreshToken(r) ==
    LET q == requests[r]
    IN /\ q.pc = "remove"
       /\ refreshTokens' = [refreshTokens EXCEPT ![q.userId] = q.doc]
       /\ requests' = [requests EXCEPT ![r] =
              [q EXCEPT !.pc = "add", !.base = q.doc,
                        !.doc = addRefreshToken(q.doc, q.tokens)]]
       /\ UNCHANGED <<todos, nextSubId, last, loginAttempts, limiter, now,
                      history>>

\* the save of `await user.addRefreshToken()` reaches the database: a pushed
\* token is sent as $push, an array that was sliced is written whole; the
\* handler answers 200 with the new tokens
userAddRefreshToken(r) ==
    LET q == requests[r]
        sliced == Len(q.base) + 1 > KeepTokens
    IN /\ q.pc = "add"
       /\ refreshTokens' = [refreshTokens EXCEPT ![q.userId] =
              IF sliced THEN q.doc ELSE Append(@, q.tokens)]
       /\ requests' = [requests EXCEPT ![r] = Idle]
       /\ history' = Append(history, [op |-> "refreshAccessToken",
                                      by |-> q.body.refreshToken, at |-> now])
       /\ Respond("refreshAccessToken", q.userId, 0, 0, <<>>, q.body, 200)
       /\ UNCHANGED <<todos, nextSubId, loginAttempts, limiter, now>>

\* the refresh tokens a client can hold
AllTokens == {[id |-> "u1", iat |-> t, signed |-> TRUE] : t \in 0..MaxNow}

RefreshBodies == {NoBody} \cup {[refreshToken |-> t] : t \in AllTokens \cup {Forged}}

NextAuth ==
    \/ Tick
    \/ handleGoogleCallback("u1")
    \/ \E r \in Slots, b \in RefreshBodies : refreshAccessTokenFind(r, b)
    \/ \E r \in Slots : userRemoveRefreshToken(r)
    \/ \E r \in Slots : userAddRefreshToken(r)

SpecAuth == Init /\ [][NextAuth]_vars

(***************************************************************************)
(* C29: a refresh token yields at most one successful refresh, also when   *)
(* two refresh requests carrying it are interleaved, and no user holds     *)
(* more than 5 stored refresh tokens.                                      *)
(***************************************************************************)
Refreshed(i) == history[i].op = "refreshAccessToken"

C29_RefreshSingleUse ==
    /\ \A i, j \in 1..Len(history) :
           Refreshed(i) /\ Refreshed(j) /\ history[i].by = history[j].by
               => i = j
    /\ \A u \in Users : Len(refreshTokens[u]) <= KeepTokens

(***************************************************************************)
(* Authentication: the rate limiter (middlewares/auth.middleware)          *)
(***************************************************************************)
\* the middleware calls next(): no response of its own
PassedOn == 0

\* loginAttempts.has(identifier)
HasAttempts(identifier) == identifier \in DOMAIN loginAttempts

\* loginAttempts.set(identifier, value)
SetAttempts(identifier, value) ==
    [i \in DOMAIN loginAttempts \cup {identifier} |->
        IF i = identifier THEN value ELSE loginAttempts[i]]

\* a limiter that lets one request too many through
ExhaustedAbove(attempts) == attempts.count > limiter.maxAttempts

\* attempts.count >= maxAttempts
Exhausted(attempts) == attempts.count >= limiter.maxAttempts

\* the middleware returned by rateLimitAuth(maxAttempts, windowMs), run for
\* a request of the caller `identifier` (req.ip)
rateLimitAuth(identifier) ==
    LET fresh == [count |-> 1, resetTime |-> now + limiter.windowMs]
        pass == [op |-> "rateLimitAuth", by |-> identifier, at |-> now]
    IN
    /\ Len(history) < MaxHistory
    /\ UNCHANGED <<todos, nextSubId, requests, refreshTokens, limiter, now>>
    /\ IF ~HasAttempts(identifier)
       THEN /\ loginAttempts' = SetAttempts(identifier, fresh)
            /\ history' = Append(history, pass)
            /\ Respond("rateLimitAuth", identifier, 0, 0, <<>>, NoBody, PassedOn)
       ELSE IF now > loginAttempts[identifier].resetTime
       THEN /\ loginAttempts' = SetAttempts(identifier, fresh)
            /\ history' = Append(history, pass)
            /\ Respond("rateLimitAuth", identifier, 0, 0, <<>>, NoBody, PassedOn)
       ELSE IF Exhausted(loginAttempts[identifier])
       THEN /\ Respond("rateLimitAuth", identifier, 0, 0, <<>>, NoBody, 429)
            /\ UNCHANGED <<loginAttempts, history>>
       ELSE /\ loginAttempts' = SetAttempts(identifier,
                   [loginAttempts[identifier] EXCEPT !.count = @ + 1])
            /\ history' = Append(history, pass)
            /\ Respond("rateLimitAuth", identifier, 0, 0, <<>>, NoBody, PassedOn)

Callers == {"ip1", "ip2"}

\* the parameters the limiter is created with, in ticks of the clock
Limiters == {[maxAttempts |-> m, windowMs |-> w] : m \in 1..2, w \in 1..2}

InitLimit ==
    /\ todos = <<>>
    /\ nextSubId = 1
    /\ last = NoRequest
    /\ requests = [r \in Slots |-> Idle]
    /\ refreshTokens = [u \in Users |-> <<>>]
    /\ loginAttempts = <<>>
    /\ limiter \in Limiters
    /\ now = 0
    /\ history = <<>>

NextLimit ==
    \/ Tick
    \/ \E c \in Callers : rateLimitAuth(c)

SpecLimit == InitLimit /\ [][NextLimit]_vars

(***************************************************************************)
(* C30: the limiter lets through at most maxAttempts requests of a caller  *)
(* within one window; once the count has reached maxAttempts a further     *)
(* request before resetTime gets 429 and leaves the counter as it is; the  *)
(* first request after resetTime passes and starts a window with count 1.  *)
(***************************************************************************)
\* the requests of caller c let through since the start of its window
PassedInWindow(c) ==
    {i \in 1..Len(history) :
        /\ history[i].op = "rateLimitAuth"
        /\ history[i].by = c
        /\ history[i].at >= loginAttempts[c].resetTime - limiter.windowMs}

\* this step handles a request of caller c
Asks(c) ==
    /\ now' = now
    /\ last'.op = "rateLimitAuth"
    /\ last'.userId = c

C30_RateLimit ==
    [][\A c \in Callers :
          /\ HasAttempts(c)' =>
                Cardinality(PassedInWindow(c))' <= limiter.maxAttempts
          /\ Asks(c) /\ HasAttempts(c) =>
                /\ (/\ loginAttempts[c].count >= limiter.maxAttempts
                    /\ now < loginAttempts[c].resetTime) =>
                       /\ last'.code = 429
                       /\ loginAttempts' = loginAttempts
                       /\ history' = history
                /\ now > loginAttempts[c].resetTime =>
                       /\ last'.code = PassedOn
                       /\ loginAttempts'[c] =
                              [count |-> 1,
                               resetTime |-> now + limiter.windowMs]]_vars

\* a caller that used its window up is turned away
C30_Witness ==
    /\ last.op = "rateLimitAuth"
    /\ last.code = 429
    /\ HasAttempts(last.userId)
    /\ loginAttempts[last.userId].count = limiter.maxAttempts
    /\ Cardinality(PassedInWindow(last.userId)) = limiter.maxAttempts
    /\ now < loginAttempts[last.userId].resetTime

\* a caller whose window ran out was let through again with a new window
C30_Restarted ==
    /\ last.op = "rateLimitAuth"
    /\ last.code = PassedOn
    /\ loginAttempts[last.userId].count = 1
    /\ \E i \in 1..Len(history) :
           /\ history[i].by = last.userId
           /\ history[i].at < now - limiter.windowMs

====
